---------------------------- MODULE Spec2Model ----------------------------
(***************************************************************************)
(* Model of CELLINT-RC (src/cellint-rc.py): the identifier-synthesis       *)
(* engine of DataAnalyzer (calculate_possible_imsis,                       *)
(* calculate_possible_imeis) and the Device wrappers that call it, the     *)
(* report parser (parse_report_content), the Logger they write through,    *)
(* and the device registry shared by the console and the monitor thread.   *)
(*                                                                         *)
(* Python strings are sequences of one-character strings, so that length,  *)
(* prefix, digit tests, int() and str() are computed and not assumed.      *)
(* A Python value is a record [t, s, n]: t = "str" with text s, t = "int"  *)
(* with number n, or t = "absent" for a key the mapping does not hold.     *)
(***************************************************************************)
EXTENDS Integers, Sequences, FiniteSets, TLC

VARIABLES
    pc,              \* where the console (the main thread) is: "idle" at the
                     \* prompt, "returned" when a call ended, else the line
                     \* of start, stop, add_device or save_devices it is at
    op,              \* "none" | "imsi" | "imei": the synthesis that was called
    via,             \* "none" | "device" | "direct": through Device.* or DataAnalyzer.*
    device_data,     \* the parameter mapping of the call (Device.data)
    count,           \* the count the caller asked for
    rng,             \* the random source of the call: [seed, stride]
    hashseed,        \* what fixes the iteration order of Python's set of strings
    outcome,         \* "none" | "ok" | "TypeError" | "ValueError"
    possible_imsis,  \* the pool built by the loop (possible_imsis before set())
    result,          \* the list the call returned (<<>> when it raised)
    prev,            \* the previous subscriber synthesis, kept by SpecTwice only
    base_digits,     \* the digits the check-digit computation was applied to
    digit,           \* the check digit it produced (-1: none yet)
    log_file,        \* the lines appended to LOG_FILE since the prompt
    stdout,          \* the lines Logger.log printed since the prompt
    report_lines,    \* the lines of the report: the kind of each
    content,         \* the text parse_report_content was called with
    report_data,     \* the record it returned
    running,         \* DataMonitor.running
    thread,          \* DataMonitor.thread: the Thread object (0: None)
    target_device,   \* DataMonitor.target_device
    device_id,       \* the argument of the start() in progress
    thread_state,    \* of every Thread object: "unborn" | "created" | "alive" | "finished"
    mpc,             \* where each monitor_loop thread is
    devices,         \* DeviceManager.devices, in insertion order
    db_file,         \* the device list in DEVICE_DB_FILE
    adding,          \* per thread: the devices its command has still to add
    devices_data,    \* per thread: the devices_data of its save_devices
    created          \* how many Device ids have been drawn

\* What Logger.log writes to.
logVars == <<log_file, stdout>>

\* The argument and the result of the parser.
parserVars == <<report_lines, content, report_data>>

\* The state of the synthesis calls.
synthesisVars == <<via, device_data, count, rng, hashseed, possible_imsis,
                   result, prev, base_digits, digit>>

\* The monitor and its threads.
monitorVars == <<running, thread, target_device, device_id, thread_state, mpc>>

\* The registry, its file, and the calls on it.
registryVars == <<devices, db_file, adding, devices_data, created>>

vars == <<pc, op, outcome, synthesisVars, logVars, parserVars, monitorVars,
          registryVars>>

---------------------------------------------------------------------------
(* Program constants *)

MAX_CALCULATIONS == 100

\* The serial has 12 digits and the random-structured tail 10.
SERIAL_LEN == 12
RAND_LEN == 10
HEX_LEN == 10
ZFILL_WIDTH == 10
MOD_BASE == 1000000000

tac_db == << <<"3", "5">>, <<"0", "1">>, <<"8", "6">> >>

(* Bounds of the model *)

\* Counts -MaxNeg .. MaxCount are tried, and MAX_CALCULATIONS .. MAX_CALCULATIONS + MaxOver.
MaxNeg == 1
MaxCount == 2
MaxOver == 1
\* The random source yields digit (seed + k * stride) % 10 at its k-th draw,
\* for every seed 0..9 and every stride 0..MaxStride.
MaxStride == 1
\* The iteration order of a set of strings: first-occurrence order rotated
\* by 0..MaxHashSeed places.
MaxHashSeed == 1

---------------------------------------------------------------------------
(* Python values and strings *)

Digits == <<"0", "1", "2", "3", "4", "5", "6", "7", "8", "9">>
HexDigits == Digits \o <<"a", "b", "c", "d", "e", "f">>
DigitChars == {Digits[i] : i \in 1..10}

Min(a, b) == IF a < b THEN a ELSE b
Max(a, b) == IF a > b THEN a ELSE b

DigitVal(c) == (CHOOSE i \in 1..10 : Digits[i] = c) - 1

IsDigitString(s) == \A i \in 1..Len(s) : s[i] \in DigitChars

StrV(s) == [t |-> "str", s |-> s, n |-> 0]
IntV(n) == [t |-> "int", s |-> <<>>, n |-> n]
Absent == [t |-> "absent", s |-> <<>>, n |-> 0]

\* Decimal text of a natural number.
RECURSIVE NatToStr(_)
NatToStr(n) == IF n < 10 THEN <<Digits[n + 1]>>
               ELSE NatToStr(n \div 10) \o <<Digits[(n % 10) + 1]>>

\* str(n) of a Python int.
IntToStr(n) == IF n < 0 THEN <<"-">> \o NatToStr(-n) ELSE NatToStr(n)

\* str(v), and the {v} of an f-string: the text itself, or the decimal text.
Str(v) == IF v.t = "int" THEN IntToStr(v.n) ELSE v.s

\* Whether int(s) accepts the text s: an optional sign and at least one
\* digit (the model's alphabet has no blanks and no underscores).
IsIntLiteral(s) ==
    LET body == IF Len(s) > 0 /\ s[1] \in {"-", "+"} THEN Tail(s) ELSE s
    IN  Len(body) > 0 /\ IsDigitString(body)

RECURSIVE ParseNat(_)
ParseNat(s) == IF s = <<>> THEN 0
               ELSE 10 * ParseNat(SubSeq(s, 1, Len(s) - 1)) + DigitVal(s[Len(s)])

\* int(s) of a text that int() accepts.
ParseInt(s) == IF s[1] = "-" THEN 0 - ParseNat(Tail(s))
               ELSE IF s[1] = "+" THEN ParseNat(Tail(s))
               ELSE ParseNat(s)

\* int(v) raises ValueError on a text that is no integer literal.
IntRaises(v) == v.t = "str" /\ ~IsIntLiteral(v.s)
IntOf(v) == IF v.t = "int" THEN v.n ELSE ParseInt(v.s)

\* s.zfill(w): zeros on the left up to width w, after a leading sign.
RECURSIVE Zeros(_)
Zeros(k) == IF k <= 0 THEN <<>> ELSE <<"0">> \o Zeros(k - 1)
ZFill(s, w) ==
    IF Len(s) > 0 /\ s[1] \in {"-", "+"}
    THEN <<s[1]>> \o Zeros(w - Len(s)) \o Tail(s)
    ELSE Zeros(w - Len(s)) \o s

\* Python's a % b for b > 0 (the result is never negative).
PyMod(a, b) == a % b

\* seq[:c]: the first c elements, or all but the last -c when c < 0.
SliceTo(s, c) == IF c >= 0 THEN SubSeq(s, 1, Min(c, Len(s)))
                 ELSE SubSeq(s, 1, Max(0, Len(s) + c))

\* range(n) has n elements for n > 0 and none otherwise.
RangeLen(n) == Max(n, 0)


---------------------------------------------------------------------------
(* The random source (random.randint, random.choice) *)

\* The k-th draw (k = 0, 1, ...) of random.randint(0, 9) from source r.
RandDigit(r, k) == (r.seed + k * r.stride) % 10

\* random.choice(seq) at draw k: one of the elements, by the draw.
RandChoice(seq, r, k) == seq[(RandDigit(r, k) % Len(seq)) + 1]

Rngs == [seed : 0..9, stride : 0..MaxStride]
\* The source of a call that draws nothing.
NoRng == [seed |-> 0 - 1, stride |-> 0]

---------------------------------------------------------------------------
(* hashlib.sha256(...).hexdigest()[:10] *)

\* n as w lowercase hexadecimal digits.
RECURSIVE Hex(_, _)
Hex(n, w) == IF w = 0 THEN <<>>
             ELSE Hex(n \div 16, w - 1) \o <<HexDigits[(n % 16) + 1]>>

\* The first 40 bits of the SHA-256 digest of every text the model hashes,
\* as two 20-bit numbers: <<text, bits 1..20, bits 21..40>>.
ShaRows == {
    <<<<"3", "1", "0", "2", "6", "0", "0", "0", "0", "0", "0", "0">>, 369978, 753119>>,
    <<<<"3", "1", "0", "2", "6", "0", "0", "0", "0", "0", "0", "0", "0">>, 304412, 960147>>,
    <<<<"3", "1", "0", "2", "6", "0", "0", "0", "0", "0", "0", "0", "1">>, 298072, 40156>>,
    <<<<"3", "1", "0", "2", "6", "0", "0", "0", "0", "0", "0", "0", "1", "0">>, 30765, 214405>>,
    <<<<"3", "1", "0", "2", "6", "0", "0", "0", "0", "0", "0", "0", "1", "1">>, 519479, 114208>>,
    <<<<"3", "1", "0", "2", "6", "0", "0", "0", "0", "0", "0", "0", "1", "2">>, 901209, 925253>>,
    <<<<"3", "1", "0", "2", "6", "0", "0", "0", "0", "0", "0", "0", "1", "3">>, 493967, 624898>>,
    <<<<"3", "1", "0", "2", "6", "0", "0", "0", "0", "0", "0", "0", "1", "4">>, 1035465, 463552>>,
    <<<<"3", "1", "0", "2", "6", "0", "0", "0", "0", "0", "0", "0", "1", "5">>, 25213, 543840>>,
    <<<<"3", "1", "0", "2", "6", "0", "0", "0", "0", "0", "0", "0", "1", "6">>, 366213, 353740>>,
    <<<<"3", "1", "0", "2", "6", "0", "0", "0", "0", "0", "0", "0", "1", "7">>, 396860, 870359>>,
    <<<<"3", "1", "0", "2", "6", "0", "0", "0", "0", "0", "0", "0", "1", "8">>, 294410, 963298>>,
    <<<<"3", "1", "0", "2", "6", "0", "0", "0", "0", "0", "0", "0", "1", "9">>, 968385, 648227>>,
    <<<<"3", "1", "0", "2", "6", "0", "0", "0", "0", "0", "0", "0", "2">>, 1013365, 114192>>,
    <<<<"3", "1", "0", "2", "6", "0", "0", "0", "0", "0", "0", "0", "2", "0">>, 569351, 849777>>,
    <<<<"3", "1", "0", "2", "6", "0", "0", "0", "0", "0", "0", "0", "2", "1">>, 462035, 769262>>,
    <<<<"3", "1", "0", "2", "6", "0", "0", "0", "0", "0", "0", "0", "2", "2">>, 985984, 271795>>,
    <<<<"3", "1", "0", "2", "6", "0", "0", "0", "0", "0", "0", "0", "2", "3">>, 476882, 387707>>,
    <<<<"3", "1", "0", "2", "6", "0", "0", "0", "0", "0", "0", "0", "2", "4">>, 125118, 176135>>,
    <<<<"3", "1", "0", "2", "6", "0", "0", "0", "0", "0", "0", "0", "2", "5">>, 547840, 555969>>,
    <<<<"3", "1", "0", "2", "6", "0", "0", "0", "0", "0", "0", "0", "2", "6">>, 802702, 30643>>,
    <<<<"3", "1", "0", "2", "6", "0", "0", "0", "0", "0", "0", "0", "2", "7">>, 654089, 431046>>,
    <<<<"3", "1", "0", "2", "6", "0", "0", "0", "0", "0", "0", "0", "2", "8">>, 294637, 308085>>,
    <<<<"3", "1", "0", "2", "6", "0", "0", "0", "0", "0", "0", "0", "2", "9">>, 159823, 738000>>,
    <<<<"3", "1", "0", "2", "6", "0", "0", "0", "0", "0", "0", "0", "3">>, 995112, 528354>>,
    <<<<"3", "1", "0", "2", "6", "0", "0", "0", "0", "0", "0", "0", "3", "0">>, 202052, 1008832>>,
    <<<<"3", "1", "0", "2", "6", "0", "0", "0", "0", "0", "0", "0", "3", "1">>, 290993, 853218>>,
    <<<<"3", "1", "0", "2", "6", "0", "0", "0", "0", "0", "0", "0", "3", "2">>, 520852, 307853>>,
    <<<<"3", "1", "0", "2", "6", "0", "0", "0", "0", "0", "0", "0", "3", "3">>, 676922, 457512>>,
    <<<<"3", "1", "0", "2", "6", "0", "0", "0", "0", "0", "0", "0", "3", "4">>, 917758, 226922>>,
    <<<<"3", "1", "0", "2", "6", "0", "0", "0", "0", "0", "0", "0", "3", "5">>, 609448, 244004>>,
    <<<<"3", "1", "0", "2", "6", "0", "0", "0", "0", "0", "0", "0", "3", "6">>, 866669, 738905>>,
    <<<<"3", "1", "0", "2", "6", "0", "0", "0", "0", "0", "0", "0", "3", "7">>, 852323, 313573>>,
    <<<<"3", "1", "0", "2", "6", "0", "0", "0", "0", "0", "0", "0", "3", "8">>, 650603, 459537>>,
    <<<<"3", "1", "0", "2", "6", "0", "0", "0", "0", "0", "0", "0", "3", "9">>, 886014, 289267>>,
    <<<<"3", "1", "0", "2", "6", "0", "0", "0", "0", "0", "0", "0", "4">>, 438968, 524670>>,
    <<<<"3", "1", "0", "2", "6", "0", "0", "0", "0", "0", "0", "0", "4", "0">>, 41153, 687155>>,
    <<<<"3", "1", "0", "2", "6", "0", "0", "0", "0", "0", "0", "0", "4", "1">>, 575936, 174650>>,
    <<<<"3", "1", "0", "2", "6", "0", "0", "0", "0", "0", "0", "0", "4", "2">>, 44539, 203880>>,
    <<<<"3", "1", "0", "2", "6", "0", "0", "0", "0", "0", "0", "0", "4", "3">>, 136342, 545763>>,
    <<<<"3", "1", "0", "2", "6", "0", "0", "0", "0", "0", "0", "0", "4", "4">>, 1006812, 294888>>,
    <<<<"3", "1", "0", "2", "6", "0", "0", "0", "0", "0", "0", "0", "4", "5">>, 40528, 692631>>,
    <<<<"3", "1", "0", "2", "6", "0", "0", "0", "0", "0", "0", "0", "4", "6">>, 72790, 910472>>,
    <<<<"3", "1", "0", "2", "6", "0", "0", "0", "0", "0", "0", "0", "4", "7">>, 373292, 473414>>,
    <<<<"3", "1", "0", "2", "6", "0", "0", "0", "0", "0", "0", "0", "4", "8">>, 290945, 169113>>,
    <<<<"3", "1", "0", "2", "6", "0", "0", "0", "0", "0", "0", "0", "4", "9">>, 782815, 519290>>,
    <<<<"3", "1", "0", "2", "6", "0", "0", "0", "0", "0", "0", "0", "5">>, 78165, 140665>>,
    <<<<"3", "1", "0", "2", "6", "0", "0", "0", "0", "0", "0", "0", "5", "0">>, 149010, 19353>>,
    <<<<"3", "1", "0", "2", "6", "0", "0", "0", "0", "0", "0", "0", "5", "1">>, 483143, 874826>>,
    <<<<"3", "1", "0", "2", "6", "0", "0", "0", "0", "0", "0", "0", "5", "2">>, 269303, 706770>>,
    <<<<"3", "1", "0", "2", "6", "0", "0", "0", "0", "0", "0", "0", "5", "3">>, 761379, 353014>>,
    <<<<"3", "1", "0", "2", "6", "0", "0", "0", "0", "0", "0", "0", "5", "4">>, 136040, 208550>>,
    <<<<"3", "1", "0", "2", "6", "0", "0", "0", "0", "0", "0", "0", "5", "5">>, 1029826, 279384>>,
    <<<<"3", "1", "0", "2", "6", "0", "0", "0", "0", "0", "0", "0", "5", "6">>, 328640, 985472>>,
    <<<<"3", "1", "0", "2", "6", "0", "0", "0", "0", "0", "0", "0", "5", "7">>, 861004, 190478>>,
    <<<<"3", "1", "0", "2", "6", "0", "0", "0", "0", "0", "0", "0", "5", "8">>, 386642, 611319>>,
    <<<<"3", "1", "0", "2", "6", "0", "0", "0", "0", "0", "0", "0", "5", "9">>, 424164, 294335>>,
    <<<<"3", "1", "0", "2", "6", "0", "0", "0", "0", "0", "0", "0", "6">>, 488443, 719242>>,
    <<<<"3", "1", "0", "2", "6", "0", "0", "0", "0", "0", "0", "0", "6", "0">>, 741083, 899663>>,
    <<<<"3", "1", "0", "2", "6", "0", "0", "0", "0", "0", "0", "0", "6", "1">>, 103299, 669104>>,
    <<<<"3", "1", "0", "2", "6", "0", "0", "0", "0", "0", "0", "0", "6", "2">>, 572409, 60774>>,
    <<<<"3", "1", "0", "2", "6", "0", "0", "0", "0", "0", "0", "0", "6", "3">>, 121661, 983985>>,
    <<<<"3", "1", "0", "2", "6", "0", "0", "0", "0", "0", "0", "0", "6", "4">>, 219337, 681604>>,
    <<<<"3", "1", "0", "2", "6", "0", "0", "0", "0", "0", "0", "0", "6", "5">>, 24842, 316746>>,
    <<<<"3", "1", "0", "2", "6", "0", "0", "0", "0", "0", "0", "0", "6", "6">>, 243995, 954059>>,
    <<<<"3", "1", "0", "2", "6", "0", "0", "0", "0", "0", "0", "0", "6", "7">>, 464053, 456454>>,
    <<<<"3", "1", "0", "2", "6", "0", "0", "0", "0", "0", "0", "0", "6", "8">>, 415607, 719268>>,
    <<<<"3", "1", "0", "2", "6", "0", "0", "0", "0", "0", "0", "0", "6", "9">>, 913232, 804382>>,
    <<<<"3", "1", "0", "2", "6", "0", "0", "0", "0", "0", "0", "0", "7">>, 832932, 19815>>,
    <<<<"3", "1", "0", "2", "6", "0", "0", "0", "0", "0", "0", "0", "7", "0">>, 681715, 20021>>,
    <<<<"3", "1", "0", "2", "6", "0", "0", "0", "0", "0", "0", "0", "7", "1">>, 829006, 376732>>,
    <<<<"3", "1", "0", "2", "6", "0", "0", "0", "0", "0", "0", "0", "7", "2">>, 698794, 277974>>,
    <<<<"3", "1", "0", "2", "6", "0", "0", "0", "0", "0", "0", "0", "7", "3">>, 681820, 245133>>,
    <<<<"3", "1", "0", "2", "6", "0", "0", "0", "0", "0", "0", "0", "7", "4">>, 19824, 259158>>,
    <<<<"3", "1", "0", "2", "6", "0", "0", "0", "0", "0", "0", "0", "7", "5">>, 718719, 222977>>,
    <<<<"3", "1", "0", "2", "6", "0", "0", "0", "0", "0", "0", "0", "7", "6">>, 743099, 932828>>,
    <<<<"3", "1", "0", "2", "6", "0", "0", "0", "0", "0", "0", "0", "7", "7">>, 959822, 766538>>,
    <<<<"3", "1", "0", "2", "6", "0", "0", "0", "0", "0", "0", "0", "7", "8">>, 751670, 7135>>,
    <<<<"3", "1", "0", "2", "6", "0", "0", "0", "0", "0", "0", "0", "7", "9">>, 804209, 377097>>,
    <<<<"3", "1", "0", "2", "6", "0", "0", "0", "0", "0", "0", "0", "8">>, 299369, 317299>>,
    <<<<"3", "1", "0", "2", "6", "0", "0", "0", "0", "0", "0", "0", "8", "0">>, 736088, 1001834>>,
    <<<<"3", "1", "0", "2", "6", "0", "0", "0", "0", "0", "0", "0", "8", "1">>, 84601, 315492>>,
    <<<<"3", "1", "0", "2", "6", "0", "0", "0", "0", "0", "0", "0", "8", "2">>, 774895, 182334>>,
    <<<<"3", "1", "0", "2", "6", "0", "0", "0", "0", "0", "0", "0", "8", "3">>, 419895, 348378>>,
    <<<<"3", "1", "0", "2", "6", "0", "0", "0", "0", "0", "0", "0", "8", "4">>, 338996, 763952>>,
    <<<<"3", "1", "0", "2", "6", "0", "0", "0", "0", "0", "0", "0", "8", "5">>, 553498, 120474>>,
    <<<<"3", "1", "0", "2", "6", "0", "0", "0", "0", "0", "0", "0", "8", "6">>, 914449, 625766>>,
    <<<<"3", "1", "0", "2", "6", "0", "0", "0", "0", "0", "0", "0", "8", "7">>, 188201, 765901>>,
    <<<<"3", "1", "0", "2", "6", "0", "0", "0", "0", "0", "0", "0", "8", "8">>, 305743, 573356>>,
    <<<<"3", "1", "0", "2", "6", "0", "0", "0", "0", "0", "0", "0", "8", "9">>, 951729, 961735>>,
    <<<<"3", "1", "0", "2", "6", "0", "0", "0", "0", "0", "0", "0", "9">>, 330882, 627794>>,
    <<<<"3", "1", "0", "2", "6", "0", "0", "0", "0", "0", "0", "0", "9", "0">>, 66837, 266252>>,
    <<<<"3", "1", "0", "2", "6", "0", "0", "0", "0", "0", "0", "0", "9", "1">>, 1028731, 1034020>>,
    <<<<"3", "1", "0", "2", "6", "0", "0", "0", "0", "0", "0", "0", "9", "2">>, 180907, 819222>>,
    <<<<"3", "1", "0", "2", "6", "0", "0", "0", "0", "0", "0", "0", "9", "3">>, 315746, 147092>>,
    <<<<"3", "1", "0", "2", "6", "0", "0", "0", "0", "0", "0", "0", "9", "4">>, 715852, 505323>>,
    <<<<"3", "1", "0", "2", "6", "0", "0", "0", "0", "0", "0", "0", "9", "5">>, 755134, 316804>>,
    <<<<"3", "1", "0", "2", "6", "0", "0", "0", "0", "0", "0", "0", "9", "6">>, 833207, 264512>>,
    <<<<"3", "1", "0", "2", "6", "0", "0", "0", "0", "0", "0", "0", "9", "7">>, 968336, 26105>>,
    <<<<"3", "1", "0", "2", "6", "0", "0", "0", "0", "0", "0", "0", "9", "8">>, 263689, 1003948>>,
    <<<<"3", "1", "0", "2", "6", "0", "0", "0", "0", "0", "0", "0", "9", "9">>, 213598, 904775>>,
    <<<<"3", "1", "0", "2", "6", "0", "0", "0", "0", "0", "0", "1">>, 365888, 362447>>,
    <<<<"3", "1", "0", "2", "6", "0", "0", "0", "0", "0", "0", "1", "0">>, 14295, 901434>>,
    <<<<"3", "1", "0", "2", "6", "0", "0", "0", "0", "0", "0", "1", "1">>, 198017, 412691>>,
    <<<<"3", "1", "0", "2", "6", "0", "0", "0", "0", "0", "0", "1", "2">>, 613116, 27336>>,
    <<<<"3", "1", "0", "2", "6", "0", "0", "0", "0", "0", "0", "1", "3">>, 455708, 659111>>,
    <<<<"3", "1", "0", "2", "6", "0", "0", "0", "0", "0", "0", "1", "4">>, 370385, 730031>>,
    <<<<"3", "1", "0", "2", "6", "0", "0", "0", "0", "0", "0", "1", "5">>, 263298, 888618>>,
    <<<<"3", "1", "0", "2", "6", "0", "0", "0", "0", "0", "0", "1", "6">>, 562934, 802167>>,
    <<<<"3", "1", "0", "2", "6", "0", "0", "0", "0", "0", "0", "1", "7">>, 711843, 470953>>,
    <<<<"3", "1", "0", "2", "6", "0", "0", "0", "0", "0", "0", "1", "8">>, 991157, 1134>>,
    <<<<"3", "1", "0", "2", "6", "0", "0", "0", "0", "0", "0", "1", "9">>, 235393, 769892>>,
    <<<<"3", "1", "0", "2", "6", "0", "0", "0", "0", "0", "0", "2">>, 1018729, 718326>>,
    <<<<"3", "1", "0", "2", "6", "0", "0", "0", "0", "0", "0", "2", "0">>, 992912, 1042068>>,
    <<<<"3", "1", "0", "2", "6", "0", "0", "0", "0", "0", "0", "2", "1">>, 472867, 273342>>,
    <<<<"3", "1", "0", "2", "6", "0", "0", "0", "0", "0", "0", "2", "2">>, 928428, 997601>>,
    <<<<"3", "1", "0", "2", "6", "0", "0", "0", "0", "0", "0", "2", "3">>, 595394, 90401>>,
    <<<<"3", "1", "0", "2", "6", "0", "0", "0", "0", "0", "0", "2", "4">>, 965168, 876636>>,
    <<<<"3", "1", "0", "2", "6", "0", "0", "0", "0", "0", "0", "2", "5">>, 779278, 355555>>,
    <<<<"3", "1", "0", "2", "6", "0", "0", "0", "0", "0", "0", "2", "6">>, 61501, 694001>>,
    <<<<"3", "1", "0", "2", "6", "0", "0", "0", "0", "0", "0", "2", "7">>, 196024, 780753>>,
    <<<<"3", "1", "0", "2", "6", "0", "0", "0", "0", "0", "0", "2", "8">>, 652792, 335102>>,
    <<<<"3", "1", "0", "2", "6", "0", "0", "0", "0", "0", "0", "2", "9">>, 352801, 470408>>,
    <<<<"3", "1", "0", "2", "6", "0", "0", "0", "0", "0", "0", "3">>, 35424, 464297>>,
    <<<<"3", "1", "0", "2", "6", "0", "0", "0", "0", "0", "0", "3", "0">>, 403487, 236317>>,
    <<<<"3", "1", "0", "2", "6", "0", "0", "0", "0", "0", "0", "3", "1">>, 844129, 662599>>,
    <<<<"3", "1", "0", "2", "6", "0", "0", "0", "0", "0", "0", "3", "2">>, 477132, 205195>>,
    <<<<"3", "1", "0", "2", "6", "0", "0", "0", "0", "0", "0", "3", "3">>, 366150, 458613>>,
    <<<<"3", "1", "0", "2", "6", "0", "0", "0", "0", "0", "0", "3", "4">>, 553811, 803813>>,
    <<<<"3", "1", "0", "2", "6", "0", "0", "0", "0", "0", "0", "3", "5">>, 1045047, 881084>>,
    <<<<"3", "1", "0", "2", "6", "0", "0", "0", "0", "0", "0", "3", "6">>, 604507, 1003442>>,
    <<<<"3", "1", "0", "2", "6", "0", "0", "0", "0", "0", "0", "3", "7">>, 957853, 880689>>,
    <<<<"3", "1", "0", "2", "6", "0", "0", "0", "0", "0", "0", "3", "8">>, 709436, 350597>>,
    <<<<"3", "1", "0", "2", "6", "0", "0", "0", "0", "0", "0", "3", "9">>, 945650, 512840>>,
    <<<<"3", "1", "0", "2", "6", "0", "0", "0", "0", "0", "0", "4">>, 18186, 137779>>,
    <<<<"3", "1", "0", "2", "6", "0", "0", "0", "0", "0", "0", "4", "0">>, 719772, 948949>>,
    <<<<"3", "1", "0", "2", "6", "0", "0", "0", "0", "0", "0", "4", "1">>, 477253, 575803>>,
    <<<<"3", "1", "0", "2", "6", "0", "0", "0", "0", "0", "0", "4", "2">>, 461201, 1005274>>,
    <<<<"3", "1", "0", "2", "6", "0", "0", "0", "0", "0", "0", "4", "3">>, 215474, 39569>>,
    <<<<"3", "1", "0", "2", "6", "0", "0", "0", "0", "0", "0", "4", "4">>, 319360, 582867>>,
    <<<<"3", "1", "0", "2", "6", "0", "0", "0", "0", "0", "0", "4", "5">>, 361283, 898030>>,
    <<<<"3", "1", "0", "2", "6", "0", "0", "0", "0", "0", "0", "4", "6">>, 18374, 826818>>,
    <<<<"3", "1", "0", "2", "6", "0", "0", "0", "0", "0", "0", "4", "7">>, 861221, 133339>>,
    <<<<"3", "1", "0", "2", "6", "0", "0", "0", "0", "0", "0", "4", "8">>, 876987, 710884>>,
    <<<<"3", "1", "0", "2", "6", "0", "0", "0", "0", "0", "0", "4", "9">>, 28063, 239118>>,
    <<<<"3", "1", "0", "2", "6", "0", "0", "0", "0", "0", "0", "5">>, 922071, 754858>>,
    <<<<"3", "1", "0", "2", "6", "0", "0", "0", "0", "0", "0", "5", "0">>, 82889, 276306>>,
    <<<<"3", "1", "0", "2", "6", "0", "0", "0", "0", "0", "0", "5", "1">>, 281794, 928373>>,
    <<<<"3", "1", "0", "2", "6", "0", "0", "0", "0", "0", "0", "5", "2">>, 239432, 667835>>,
    <<<<"3", "1", "0", "2", "6", "0", "0", "0", "0", "0", "0", "5", "3">>, 686471, 1026305>>,
    <<<<"3", "1", "0", "2", "6", "0", "0", "0", "0", "0", "0", "5", "4">>, 401075, 633225>>,
    <<<<"3", "1", "0", "2", "6", "0", "0", "0", "0", "0", "0", "5", "5">>, 904012, 154550>>,
    <<<<"3", "1", "0", "2", "6", "0", "0", "0", "0", "0", "0", "5", "6">>, 184725, 974587>>,
    <<<<"3", "1", "0", "2", "6", "0", "0", "0", "0", "0", "0", "5", "7">>, 805189, 95629>>,
    <<<<"3", "1", "0", "2", "6", "0", "0", "0", "0", "0", "0", "5", "8">>, 227169, 793653>>,
    <<<<"3", "1", "0", "2", "6", "0", "0", "0", "0", "0", "0", "5", "9">>, 572910, 1017807>>,
    <<<<"3", "1", "0", "2", "6", "0", "0", "0", "0", "0", "0", "6">>, 248104, 445612>>,
    <<<<"3", "1", "0", "2", "6", "0", "0", "0", "0", "0", "0", "6", "0">>, 218848, 857952>>,
    <<<<"3", "1", "0", "2", "6", "0", "0", "0", "0", "0", "0", "6", "0", "0">>, 375324, 765331>>,
    <<<<"3", "1", "0", "2", "6", "0", "0", "0", "0", "0", "0", "6", "0", "1">>, 917715, 607955>>,
    <<<<"3", "1", "0", "2", "6", "0", "0", "0", "0", "0", "0", "6", "0", "2">>, 184358, 3805>>,
    <<<<"3", "1", "0", "2", "6", "0", "0", "0", "0", "0", "0", "6", "0", "3">>, 990060, 532120>>,
    <<<<"3", "1", "0", "2", "6", "0", "0", "0", "0", "0", "0", "6", "0", "4">>, 727044, 301130>>,
    <<<<"3", "1", "0", "2", "6", "0", "0", "0", "0", "0", "0", "6", "0", "5">>, 205453, 367503>>,
    <<<<"3", "1", "0", "2", "6", "0", "0", "0", "0", "0", "0", "6", "0", "6">>, 448682, 381732>>,
    <<<<"3", "1", "0", "2", "6", "0", "0", "0", "0", "0", "0", "6", "0", "7">>, 537360, 504198>>,
    <<<<"3", "1", "0", "2", "6", "0", "0", "0", "0", "0", "0", "6", "0", "8">>, 976780, 1027388>>,
    <<<<"3", "1", "0", "2", "6", "0", "0", "0", "0", "0", "0", "6", "0", "9">>, 516782, 334734>>,
    <<<<"3", "1", "0", "2", "6", "0", "0", "0", "0", "0", "0", "6", "1">>, 1019194, 109703>>,
    <<<<"3", "1", "0", "2", "6", "0", "0", "0", "0", "0", "0", "6", "2">>, 919955, 616370>>,
    <<<<"3", "1", "0", "2", "6", "0", "0", "0", "0", "0", "0", "6", "3">>, 208695, 75630>>,
    <<<<"3", "1", "0", "2", "6", "0", "0", "0", "0", "0", "0", "6", "4">>, 58478, 827955>>,
    <<<<"3", "1", "0", "2", "6", "0", "0", "0", "0", "0", "0", "6", "5">>, 789161, 354002>>,
    <<<<"3", "1", "0", "2", "6", "0", "0", "0", "0", "0", "0", "6", "6">>, 159589, 294922>>,
    <<<<"3", "1", "0", "2", "6", "0", "0", "0", "0", "0", "0", "6", "7">>, 119819, 450050>>,
    <<<<"3", "1", "0", "2", "6", "0", "0", "0", "0", "0", "0", "6", "8">>, 175234, 258867>>,
    <<<<"3", "1", "0", "2", "6", "0", "0", "0", "0", "0", "0", "6", "9">>, 580656, 1047508>>,
    <<<<"3", "1", "0", "2", "6", "0", "0", "0", "0", "0", "0", "7">>, 830625, 203390>>,
    <<<<"3", "1", "0", "2", "6", "0", "0", "0", "0", "0", "0", "7", "0">>, 943440, 450202>>,
    <<<<"3", "1", "0", "2", "6", "0", "0", "0", "0", "0", "0", "7", "1">>, 909021, 641902>>,
    <<<<"3", "1", "0", "2", "6", "0", "0", "0", "0", "0", "0", "7", "2">>, 756501, 328965>>,
    <<<<"3", "1", "0", "2", "6", "0", "0", "0", "0", "0", "0", "7", "3">>, 168240, 524440>>,
    <<<<"3", "1", "0", "2", "6", "0", "0", "0", "0", "0", "0", "7", "4">>, 927985, 439280>>,
    <<<<"3", "1", "0", "2", "6", "0", "0", "0", "0", "0", "0", "7", "5">>, 53355, 746424>>,
    <<<<"3", "1", "0", "2", "6", "0", "0", "0", "0", "0", "0", "7", "6">>, 107426, 955116>>,
    <<<<"3", "1", "0", "2", "6", "0", "0", "0", "0", "0", "0", "7", "7">>, 989532, 224313>>,
    <<<<"3", "1", "0", "2", "6", "0", "0", "0", "0", "0", "0", "7", "8">>, 21650, 51822>>,
    <<<<"3", "1", "0", "2", "6", "0", "0", "0", "0", "0", "0", "7", "9">>, 217063, 319332>>,
    <<<<"3", "1", "0", "2", "6", "0", "0", "0", "0", "0", "0", "8">>, 731038, 725351>>,
    <<<<"3", "1", "0", "2", "6", "0", "0", "0", "0", "0", "0", "8", "0">>, 506816, 676283>>,
    <<<<"3", "1", "0", "2", "6", "0", "0", "0", "0", "0", "0", "8", "1">>, 866623, 555770>>,
    <<<<"3", "1", "0", "2", "6", "0", "0", "0", "0", "0", "0", "8", "2">>, 723169, 474617>>,
    <<<<"3", "1", "0", "2", "6", "0", "0", "0", "0", "0", "0", "8", "3">>, 258666, 900544>>,
    <<<<"3", "1", "0", "2", "6", "0", "0", "0", "0", "0", "0", "8", "4">>, 599478, 433165>>,
    <<<<"3", "1", "0", "2", "6", "0", "0", "0", "0", "0", "0", "8", "5">>, 996602, 352809>>,
    <<<<"3", "1", "0", "2", "6", "0", "0", "0", "0", "0", "0", "8", "6">>, 135159, 1037422>>,
    <<<<"3", "1", "0", "2", "6", "0", "0", "0", "0", "0", "0", "8", "7">>, 489291, 535272>>,
    <<<<"3", "1", "0", "2", "6", "0", "0", "0", "0", "0", "0", "8", "8">>, 125157, 872060>>,
    <<<<"3", "1", "0", "2", "6", "0", "0", "0", "0", "0", "0", "8", "9">>, 358227, 787776>>,
    <<<<"3", "1", "0", "2", "6", "0", "0", "0", "0", "0", "0", "9">>, 905205, 433956>>,
    <<<<"3", "1", "0", "2", "6", "0", "0", "0", "0", "0", "0", "9", "0">>, 42844, 949742>>,
    <<<<"3", "1", "0", "2", "6", "0", "0", "0", "0", "0", "0", "9", "1">>, 286089, 864720>>,
    <<<<"3", "1", "0", "2", "6", "0", "0", "0", "0", "0", "0", "9", "2">>, 980274, 952621>>,
    <<<<"3", "1", "0", "2", "6", "0", "0", "0", "0", "0", "0", "9", "3">>, 152093, 247227>>,
    <<<<"3", "1", "0", "2", "6", "0", "0", "0", "0", "0", "0", "9", "4">>, 762339, 194851>>,
    <<<<"3", "1", "0", "2", "6", "0", "0", "0", "0", "0", "0", "9", "5">>, 223775, 360815>>,
    <<<<"3", "1", "0", "2", "6", "0", "0", "0", "0", "0", "0", "9", "6">>, 145475, 975621>>,
    <<<<"3", "1", "0", "2", "6", "0", "0", "0", "0", "0", "0", "9", "7">>, 666583, 992569>>,
    <<<<"3", "1", "0", "2", "6", "0", "0", "0", "0", "0", "0", "9", "8">>, 508182, 770339>>,
    <<<<"3", "1", "0", "2", "6", "0", "0", "0", "0", "0", "0", "9", "9">>, 945807, 727793>>,
    <<<<"3", "1", "0", "2", "6", "0", "0", "0", "0", "0", "5", "0", "0", "0", "0">>, 329557, 472298>>,
    <<<<"3", "1", "0", "2", "6", "0", "0", "0", "0", "0", "5", "0", "0", "0", "1">>, 313311, 250614>>,
    <<<<"3", "1", "0", "2", "6", "0", "0", "0", "0", "0", "5", "0", "0", "0", "2">>, 1023757, 454330>>,
    <<<<"3", "1", "0", "2", "6", "0", "0", "0", "0", "0", "5", "0", "0", "0", "3">>, 728694, 454726>>,
    <<<<"3", "1", "0", "2", "6", "0", "0", "0", "0", "0", "5", "0", "0", "0", "4">>, 495806, 530635>>,
    <<<<"3", "1", "0", "2", "6", "0", "0", "0", "0", "0", "5", "0", "0", "0", "5">>, 1014580, 764720>>,
    <<<<"3", "1", "0", "2", "6", "0", "0", "0", "0", "0", "5", "0", "0", "0", "6">>, 237674, 449648>>,
    <<<<"3", "1", "0", "2", "6", "0", "0", "0", "0", "0", "5", "0", "0", "0", "7">>, 881549, 564077>>,
    <<<<"3", "1", "0", "2", "6", "0", "0", "0", "0", "0", "5", "0", "0", "0", "8">>, 442486, 850755>>,
    <<<<"3", "1", "0", "2", "6", "0", "0", "0", "0", "0", "5", "0", "0", "0", "9">>, 691985, 965740>>,
    <<<<"3", "1", "0", "2", "6", "0", "0", "0", "0", "0", "5", "0", "0", "6", "0", "0">>, 987263, 533516>>,
    <<<<"3", "1", "0", "2", "6", "0", "0", "0", "0", "0", "5", "0", "0", "6", "0", "1">>, 515319, 944072>>,
    <<<<"3", "1", "0", "2", "6", "0", "0", "0", "0", "0", "5", "0", "0", "6", "0", "2">>, 983126, 275748>>,
    <<<<"3", "1", "0", "2", "6", "0", "0", "0", "0", "0", "5", "0", "0", "6", "0", "3">>, 172129, 160936>>,
    <<<<"3", "1", "0", "2", "6", "0", "0", "0", "0", "0", "5", "0", "0", "6", "0", "4">>, 559833, 483988>>,
    <<<<"3", "1", "0", "2", "6", "0", "0", "0", "0", "0", "5", "0", "0", "6", "0", "5">>, 637641, 707039>>,
    <<<<"3", "1", "0", "2", "6", "0", "0", "0", "0", "0", "5", "0", "0", "6", "0", "6">>, 434150, 438417>>,
    <<<<"3", "1", "0", "2", "6", "0", "0", "0", "0", "0", "5", "0", "0", "6", "0", "7">>, 900530, 108726>>,
    <<<<"3", "1", "0", "2", "6", "0", "0", "0", "0", "0", "5", "0", "0", "6", "0", "8">>, 329839, 671857>>,
    <<<<"3", "1", "0", "2", "6", "0", "0", "0", "0", "0", "5", "0", "0", "6", "0", "9">>, 858924, 31354>>,
    <<<<"3", "1", "0", "2", "6", "0", "0", "0", "0", "0", "6", "0", "0">>, 31041, 961140>>,
    <<<<"3", "1", "0", "2", "6", "0", "0", "0", "0", "0", "6", "0", "1">>, 728211, 981584>>,
    <<<<"3", "1", "0", "2", "6", "0", "0", "0", "0", "0", "6", "0", "2">>, 651300, 69141>>,
    <<<<"3", "1", "0", "2", "6", "0", "0", "0", "0", "0", "6", "0", "3">>, 729670, 432833>>,
    <<<<"3", "1", "0", "2", "6", "0", "0", "0", "0", "0", "6", "0", "4">>, 860148, 470627>>,
    <<<<"3", "1", "0", "2", "6", "0", "0", "0", "0", "0", "6", "0", "5">>, 12535, 871865>>,
    <<<<"3", "1", "0", "2", "6", "0", "0", "0", "0", "0", "6", "0", "6">>, 809071, 228806>>,
    <<<<"3", "1", "0", "2", "6", "0", "0", "0", "0", "0", "6", "0", "7">>, 32458, 26211>>,
    <<<<"3", "1", "0", "2", "6", "0", "0", "0", "0", "0", "6", "0", "8">>, 997739, 220622>>,
    <<<<"3", "1", "0", "2", "6", "0", "0", "0", "0", "0", "6", "0", "9">>, 311964, 108020>>,
    <<<<"3", "1", "0", "2", "6", "0", "0", "0", "0", "5", "0", "0", "0", "0">>, 1012552, 990249>>,
    <<<<"3", "1", "0", "2", "6", "0", "0", "0", "0", "5", "0", "0", "0", "1">>, 310388, 695433>>,
    <<<<"3", "1", "0", "2", "6", "0", "0", "0", "0", "5", "0", "0", "0", "2">>, 508475, 922864>>,
    <<<<"3", "1", "0", "2", "6", "0", "0", "0", "0", "5", "0", "0", "0", "3">>, 657634, 330434>>,
    <<<<"3", "1", "0", "2", "6", "0", "0", "0", "0", "5", "0", "0", "0", "4">>, 576825, 714323>>,
    <<<<"3", "1", "0", "2", "6", "0", "0", "0", "0", "5", "0", "0", "0", "5">>, 700235, 500497>>,
    <<<<"3", "1", "0", "2", "6", "0", "0", "0", "0", "5", "0", "0", "0", "6">>, 756294, 408611>>,
    <<<<"3", "1", "0", "2", "6", "0", "0", "0", "0", "5", "0", "0", "0", "7">>, 112918, 321837>>,
    <<<<"3", "1", "0", "2", "6", "0", "0", "0", "0", "5", "0", "0", "0", "8">>, 280047, 416265>>,
    <<<<"3", "1", "0", "2", "6", "0", "0", "0", "0", "5", "0", "0", "0", "9">>, 315984, 867743>>,
    <<<<"3", "1", "0", "2", "6", "0", "0", "0", "0", "5", "0", "0", "6", "0", "0">>, 595256, 748703>>,
    <<<<"3", "1", "0", "2", "6", "0", "0", "0", "0", "5", "0", "0", "6", "0", "1">>, 110198, 531914>>,
    <<<<"3", "1", "0", "2", "6", "0", "0", "0", "0", "5", "0", "0", "6", "0", "2">>, 1046342, 584608>>,
    <<<<"3", "1", "0", "2", "6", "0", "0", "0", "0", "5", "0", "0", "6", "0", "3">>, 1030873, 510869>>,
    <<<<"3", "1", "0", "2", "6", "0", "0", "0", "0", "5", "0", "0", "6", "0", "4">>, 910933, 354182>>,
    <<<<"3", "1", "0", "2", "6", "0", "0", "0", "0", "5", "0", "0", "6", "0", "5">>, 421868, 829182>>,
    <<<<"3", "1", "0", "2", "6", "0", "0", "0", "0", "5", "0", "0", "6", "0", "6">>, 166516, 794057>>,
    <<<<"3", "1", "0", "2", "6", "0", "0", "0", "0", "5", "0", "0", "6", "0", "7">>, 390316, 74459>>,
    <<<<"3", "1", "0", "2", "6", "0", "0", "0", "0", "5", "0", "0", "6", "0", "8">>, 318096, 69920>>,
    <<<<"3", "1", "0", "2", "6", "0", "0", "0", "0", "5", "0", "0", "6", "0", "9">>, 599356, 554996>>,
    <<<<"3", "1", "0", "2", "6", "0", "4", "0", "0", "0", "0", "0", "0", "0">>, 353570, 159530>>,
    <<<<"3", "1", "0", "2", "6", "0", "4", "0", "0", "0", "0", "0", "0", "1">>, 597705, 512222>>,
    <<<<"3", "1", "0", "2", "6", "0", "4", "0", "0", "0", "0", "0", "0", "2">>, 986836, 669090>>,
    <<<<"3", "1", "0", "2", "6", "0", "4", "0", "0", "0", "0", "0", "0", "3">>, 149405, 373147>>,
    <<<<"3", "1", "0", "2", "6", "0", "4", "0", "0", "0", "0", "0", "0", "4">>, 263649, 804868>>,
    <<<<"3", "1", "0", "2", "6", "0", "4", "0", "0", "0", "0", "0", "0", "5">>, 917363, 899332>>,
    <<<<"3", "1", "0", "2", "6", "0", "4", "0", "0", "0", "0", "0", "0", "6">>, 212349, 121435>>,
    <<<<"3", "1", "0", "2", "6", "0", "4", "0", "0", "0", "0", "0", "0", "7">>, 508234, 319190>>,
    <<<<"3", "1", "0", "2", "6", "0", "4", "0", "0", "0", "0", "0", "0", "8">>, 729968, 317122>>,
    <<<<"3", "1", "0", "2", "6", "0", "4", "0", "0", "0", "0", "0", "0", "9">>, 945637, 692913>>,
    <<<<"3", "1", "0", "2", "6", "0", "4", "0", "0", "0", "0", "0", "6", "0", "0">>, 812165, 143775>>,
    <<<<"3", "1", "0", "2", "6", "0", "4", "0", "0", "0", "0", "0", "6", "0", "1">>, 627008, 822740>>,
    <<<<"3", "1", "0", "2", "6", "0", "4", "0", "0", "0", "0", "0", "6", "0", "2">>, 497642, 898875>>,
    <<<<"3", "1", "0", "2", "6", "0", "4", "0", "0", "0", "0", "0", "6", "0", "3">>, 732176, 587237>>,
    <<<<"3", "1", "0", "2", "6", "0", "4", "0", "0", "0", "0", "0", "6", "0", "4">>, 904494, 803411>>,
    <<<<"3", "1", "0", "2", "6", "0", "4", "0", "0", "0", "0", "0", "6", "0", "5">>, 30388, 430761>>,
    <<<<"3", "1", "0", "2", "6", "0", "4", "0", "0", "0", "0", "0", "6", "0", "6">>, 83730, 1042487>>,
    <<<<"3", "1", "0", "2", "6", "0", "4", "0", "0", "0", "0", "0", "6", "0", "7">>, 1045231, 799243>>,
    <<<<"3", "1", "0", "2", "6", "0", "4", "0", "0", "0", "0", "0", "6", "0", "8">>, 350920, 826958>>,
    <<<<"3", "1", "0", "2", "6", "0", "4", "0", "0", "0", "0", "0", "6", "0", "9">>, 610811, 493406>>,
    <<<<"3", "1", "0", "2", "6", "0", "4", "0", "0", "0", "0", "5", "0", "0", "0", "0">>, 564420, 840721>>,
    <<<<"3", "1", "0", "2", "6", "0", "4", "0", "0", "0", "0", "5", "0", "0", "0", "1">>, 551129, 357636>>,
    <<<<"3", "1", "0", "2", "6", "0", "4", "0", "0", "0", "0", "5", "0", "0", "0", "2">>, 1021507, 845189>>,
    <<<<"3", "1", "0", "2", "6", "0", "4", "0", "0", "0", "0", "5", "0", "0", "0", "3">>, 146047, 418237>>,
    <<<<"3", "1", "0", "2", "6", "0", "4", "0", "0", "0", "0", "5", "0", "0", "0", "4">>, 532129, 983468>>,
    <<<<"3", "1", "0", "2", "6", "0", "4", "0", "0", "0", "0", "5", "0", "0", "0", "5">>, 829474, 334461>>,
    <<<<"3", "1", "0", "2", "6", "0", "4", "0", "0", "0", "0", "5", "0", "0", "0", "6">>, 917999, 356939>>,
    <<<<"3", "1", "0", "2", "6", "0", "4", "0", "0", "0", "0", "5", "0", "0", "0", "7">>, 407137, 623521>>,
    <<<<"3", "1", "0", "2", "6", "0", "4", "0", "0", "0", "0", "5", "0", "0", "0", "8">>, 439840, 82540>>,
    <<<<"3", "1", "0", "2", "6", "0", "4", "0", "0", "0", "0", "5", "0", "0", "0", "9">>, 551393, 457414>>,
    <<<<"3", "1", "0", "2", "6", "0", "4", "0", "0", "0", "0", "5", "0", "0", "6", "0", "0">>, 357688, 898704>>,
    <<<<"3", "1", "0", "2", "6", "0", "4", "0", "0", "0", "0", "5", "0", "0", "6", "0", "1">>, 4508, 715480>>,
    <<<<"3", "1", "0", "2", "6", "0", "4", "0", "0", "0", "0", "5", "0", "0", "6", "0", "2">>, 203340, 333901>>,
    <<<<"3", "1", "0", "2", "6", "0", "4", "0", "0", "0", "0", "5", "0", "0", "6", "0", "3">>, 177919, 889295>>,
    <<<<"3", "1", "0", "2", "6", "0", "4", "0", "0", "0", "0", "5", "0", "0", "6", "0", "4">>, 889609, 861910>>,
    <<<<"3", "1", "0", "2", "6", "0", "4", "0", "0", "0", "0", "5", "0", "0", "6", "0", "5">>, 782654, 663686>>,
    <<<<"3", "1", "0", "2", "6", "0", "4", "0", "0", "0", "0", "5", "0", "0", "6", "0", "6">>, 1011658, 145528>>,
    <<<<"3", "1", "0", "2", "6", "0", "4", "0", "0", "0", "0", "5", "0", "0", "6", "0", "7">>, 427750, 531818>>,
    <<<<"3", "1", "0", "2", "6", "0", "4", "0", "0", "0", "0", "5", "0", "0", "6", "0", "8">>, 976576, 495698>>,
    <<<<"3", "1", "0", "2", "6", "0", "4", "0", "0", "0", "0", "5", "0", "0", "6", "0", "9">>, 860269, 469636>>,
    <<<<"3", "1", "0", "2", "6", "4", "0", "0", "0", "0", "0", "0", "0">>, 336646, 132825>>,
    <<<<"3", "1", "0", "2", "6", "4", "0", "0", "0", "0", "0", "0", "1">>, 159879, 698959>>,
    <<<<"3", "1", "0", "2", "6", "4", "0", "0", "0", "0", "0", "0", "2">>, 622881, 965580>>,
    <<<<"3", "1", "0", "2", "6", "4", "0", "0", "0", "0", "0", "0", "3">>, 992042, 760434>>,
    <<<<"3", "1", "0", "2", "6", "4", "0", "0", "0", "0", "0", "0", "4">>, 769972, 21507>>,
    <<<<"3", "1", "0", "2", "6", "4", "0", "0", "0", "0", "0", "0", "5">>, 12239, 44854>>,
    <<<<"3", "1", "0", "2", "6", "4", "0", "0", "0", "0", "0", "0", "6">>, 117324, 920274>>,
    <<<<"3", "1", "0", "2", "6", "4", "0", "0", "0", "0", "0", "0", "7">>, 426543, 598288>>,
    <<<<"3", "1", "0", "2", "6", "4", "0", "0", "0", "0", "0", "0", "8">>, 13003, 736611>>,
    <<<<"3", "1", "0", "2", "6", "4", "0", "0", "0", "0", "0", "0", "9">>, 56597, 84236>>,
    <<<<"3", "1", "0", "2", "6", "4", "0", "0", "0", "0", "0", "6", "0", "0">>, 961470, 643509>>,
    <<<<"3", "1", "0", "2", "6", "4", "0", "0", "0", "0", "0", "6", "0", "1">>, 338754, 262269>>,
    <<<<"3", "1", "0", "2", "6", "4", "0", "0", "0", "0", "0", "6", "0", "2">>, 266423, 493727>>,
    <<<<"3", "1", "0", "2", "6", "4", "0", "0", "0", "0", "0", "6", "0", "3">>, 701367, 862080>>,
    <<<<"3", "1", "0", "2", "6", "4", "0", "0", "0", "0", "0", "6", "0", "4">>, 908056, 694707>>,
    <<<<"3", "1", "0", "2", "6", "4", "0", "0", "0", "0", "0", "6", "0", "5">>, 169571, 366463>>,
    <<<<"3", "1", "0", "2", "6", "4", "0", "0", "0", "0", "0", "6", "0", "6">>, 194132, 227446>>,
    <<<<"3", "1", "0", "2", "6", "4", "0", "0", "0", "0", "0", "6", "0", "7">>, 424560, 265398>>,
    <<<<"3", "1", "0", "2", "6", "4", "0", "0", "0", "0", "0", "6", "0", "8">>, 399976, 308667>>,
    <<<<"3", "1", "0", "2", "6", "4", "0", "0", "0", "0", "0", "6", "0", "9">>, 1013481, 1025851>>,
    <<<<"3", "1", "0", "2", "6", "4", "0", "0", "0", "0", "5", "0", "0", "0", "0">>, 788095, 697937>>,
    <<<<"3", "1", "0", "2", "6", "4", "0", "0", "0", "0", "5", "0", "0", "0", "1">>, 204421, 69086>>,
    <<<<"3", "1", "0", "2", "6", "4", "0", "0", "0", "0", "5", "0", "0", "0", "2">>, 460842, 969110>>,
    <<<<"3", "1", "0", "2", "6", "4", "0", "0", "0", "0", "5", "0", "0", "0", "3">>, 757546, 524406>>,
    <<<<"3", "1", "0", "2", "6", "4", "0", "0", "0", "0", "5", "0", "0", "0", "4">>, 184590, 471079>>,
    <<<<"3", "1", "0", "2", "6", "4", "0", "0", "0", "0", "5", "0", "0", "0", "5">>, 378844, 1008858>>,
    <<<<"3", "1", "0", "2", "6", "4", "0", "0", "0", "0", "5", "0", "0", "0", "6">>, 910705, 314308>>,
    <<<<"3", "1", "0", "2", "6", "4", "0", "0", "0", "0", "5", "0", "0", "0", "7">>, 73875, 367326>>,
    <<<<"3", "1", "0", "2", "6", "4", "0", "0", "0", "0", "5", "0", "0", "0", "8">>, 414497, 744963>>,
    <<<<"3", "1", "0", "2", "6", "4", "0", "0", "0", "0", "5", "0", "0", "0", "9">>, 1033026, 242276>>,
    <<<<"3", "1", "0", "2", "6", "4", "0", "0", "0", "0", "5", "0", "0", "6", "0", "0">>, 75581, 68852>>,
    <<<<"3", "1", "0", "2", "6", "4", "0", "0", "0", "0", "5", "0", "0", "6", "0", "1">>, 627133, 1047087>>,
    <<<<"3", "1", "0", "2", "6", "4", "0", "0", "0", "0", "5", "0", "0", "6", "0", "2">>, 739234, 11764>>,
    <<<<"3", "1", "0", "2", "6", "4", "0", "0", "0", "0", "5", "0", "0", "6", "0", "3">>, 813241, 572280>>,
    <<<<"3", "1", "0", "2", "6", "4", "0", "0", "0", "0", "5", "0", "0", "6", "0", "4">>, 1022362, 927203>>,
    <<<<"3", "1", "0", "2", "6", "4", "0", "0", "0", "0", "5", "0", "0", "6", "0", "5">>, 252832, 382058>>,
    <<<<"3", "1", "0", "2", "6", "4", "0", "0", "0", "0", "5", "0", "0", "6", "0", "6">>, 86383, 887361>>,
    <<<<"3", "1", "0", "2", "6", "4", "0", "0", "0", "0", "5", "0", "0", "6", "0", "7">>, 156068, 833302>>,
    <<<<"3", "1", "0", "2", "6", "4", "0", "0", "0", "0", "5", "0", "0", "6", "0", "8">>, 548534, 564985>>,
    <<<<"3", "1", "0", "2", "6", "4", "0", "0", "0", "0", "5", "0", "0", "6", "0", "9">>, 211067, 306486>> }


\* hashlib.sha256(h.encode()).hexdigest()[:10]
Sha256Hex10(h) ==
    LET row == CHOOSE x \in ShaRows : x[1] = h
    IN  Hex(row[2], HEX_LEN \div 2) \o Hex(row[3], HEX_LEN \div 2)

---------------------------------------------------------------------------
(* DataAnalyzer.calculate_possible_imeis *)

\* A variant of LuhnTotal that doubles the digits at the odd indices.
LuhnTotal_OddDoubled(base_imei) ==
    LET Term(i) == LET d == DigitVal(base_imei[i + 1])
                   IN  IF i % 2 = 1
                       THEN (IF 2 * d > 9 THEN 2 * d - 9 ELSE 2 * d)
                       ELSE d
        sum[i \in 0..Len(base_imei)] ==
            IF i = 0 THEN 0 ELSE sum[i - 1] + Term(i - 1)
    IN  sum[Len(base_imei)]

\* The loop's check digit of base_imei: the digit at an even index from the
\* left (0-indexed) is doubled, 9 subtracted when the double exceeds 9.
LuhnTotal(base_imei) ==
    LET Term(i) == LET d == DigitVal(base_imei[i + 1])
                   IN  IF i % 2 = 0
                       THEN (IF 2 * d > 9 THEN 2 * d - 9 ELSE 2 * d)
                       ELSE d
        sum[i \in 0..Len(base_imei)] ==
            IF i = 0 THEN 0 ELSE sum[i - 1] + Term(i - 1)
    IN  sum[Len(base_imei)]

\* A variant of check_digit without the outer % 10: 10 for a total ending in 0.
check_digit_NoWrap(base_imei) == 10 - (LuhnTotal(base_imei) % 10)

check_digit(base_imei) == (10 - (LuhnTotal(base_imei) % 10)) % 10

\* One iteration of the loop, the it-th (it = 0, 1, ...): it draws the
\* prefix and then the 12 digits of the serial.
GenImei(r, it) ==
    LET k0 == it * (SERIAL_LEN + 1)
        tac == RandChoice(tac_db, r, k0)
        serial == [j \in 1..SERIAL_LEN |-> Digits[RandDigit(r, k0 + j) + 1]]
        base_imei == tac \o serial
    IN  base_imei \o IntToStr(check_digit(base_imei))

calculate_possible_imeis(c, r) ==
    [k \in 1..RangeLen(Min(c, MAX_CALCULATIONS)) |-> GenImei(r, k - 1)]

---------------------------------------------------------------------------
(* DataAnalyzer.calculate_possible_imsis *)

\* device_data.get(key, default)
Get(d, key, default) == IF d[key].t = "absent" THEN default ELSE d[key]

\* The base components, as the function extracts them.
Mcc(d) == Get(d, "mcc", StrV(<<"3", "1", "0">>))
Mnc(d) == Get(d, "mnc", StrV(<<"2", "6", "0">>))
Tac(d) == Get(d, "tac", StrV(<<"0", "0", "0", "0">>))
Pci(d) == StrV(Str(Get(d, "pci", StrV(<<"0">>))))
Ci(d) == StrV(Str(Get(d, "ci", StrV(<<"0">>))))

\* mcc + mnc + <a str> raises TypeError unless mcc and mnc are both str.
ConcatRaises(d) == ~(Mcc(d).t = "str" /\ Mnc(d).t = "str")

\* A variant of IterOutcome with the two lines in the other order: the
\* conversion error wins over the concatenation error.
IterOutcome_IntFirst(d) ==
    IF IntRaises(Tac(d)) \/ IntRaises(Pci(d)) \/ IntRaises(Ci(d)) THEN "ValueError"
    ELSE IF ConcatRaises(d) THEN "TypeError"
         ELSE "ok"

\* What one iteration of the loop ends with: the hash-based line raises
\* first, the mathematical line next.
IterOutcome(d) ==
    IF ConcatRaises(d) THEN "TypeError"
    ELSE IF IntRaises(Tac(d)) \/ IntRaises(Pci(d)) \/ IntRaises(Ci(d))
         THEN "ValueError"
         ELSE "ok"

hash_str(d, i) ==
    Str(Mcc(d)) \o Str(Mnc(d)) \o Str(Tac(d)) \o Pci(d).s \o Ci(d).s \o IntToStr(i)

sha_imsi(d, i) == Mcc(d).s \o Mnc(d).s \o Sha256Hex10(hash_str(d, i))

math_imsi(d) ==
    Mcc(d).s \o Mnc(d).s \o
    ZFill(IntToStr(PyMod(IntOf(Tac(d)) * IntOf(Pci(d)) * IntOf(Ci(d)), MOD_BASE)),
          ZFILL_WIDTH)

rand_imsi(d, r, i) ==
    Mcc(d).s \o Mnc(d).s \o
    [j \in 1..RAND_LEN |-> Digits[RandDigit(r, i * RAND_LEN + (j - 1)) + 1]]

\* A variant of ImsiPool that extends the list by [sha, rand, math].
ImsiPool_RandSecond(d, r, n) ==
    [k \in 1..(3 * n) |->
        LET i == (k - 1) \div 3
        IN  CASE (k - 1) % 3 = 0 -> sha_imsi(d, i)
              [] (k - 1) % 3 = 1 -> rand_imsi(d, r, i)
              [] OTHER -> math_imsi(d)]

\* possible_imsis after n iterations that did not raise: iteration i
\* (i = 0, 1, ...) extends the list by its three candidates, in this order.
ImsiPool(d, r, n) ==
    [k \in 1..(3 * n) |->
        LET i == (k - 1) \div 3
        IN  CASE (k - 1) % 3 = 0 -> sha_imsi(d, i)
              [] (k - 1) % 3 = 1 -> math_imsi(d)
              [] OTHER -> rand_imsi(d, r, i)]

\* The iterations the loop makes.
ImsiIterations(c) == RangeLen(Min(c, MAX_CALCULATIONS))

\* How the call ends: the first iteration raises, or none does.
ImsiOutcome(d, c) == IF ImsiIterations(c) = 0 THEN "ok" ELSE IterOutcome(d)

\* list(set(pool)): every distinct string once, in an order the caller
\* cannot rely on; here the order of first occurrence, rotated by hs.
RECURSIVE KeptOf(_, _, _, _)
KeptOf(pool, keep, lo, hi) ==
    IF lo > hi THEN <<>>
    ELSE IF lo = hi THEN (IF lo \in keep THEN <<pool[lo]>> ELSE <<>>)
    ELSE LET mid == (lo + hi) \div 2
         IN  KeptOf(pool, keep, lo, mid) \o KeptOf(pool, keep, mid + 1, hi)

\* A variant of Uniq that keeps every occurrence.
Uniq_KeepAll(pool) == pool

Uniq(pool) ==
    LET keep == {i \in 1..Len(pool) : \A j \in 1..(i - 1) : pool[j] # pool[i]}
    IN  KeptOf(pool, keep, 1, Len(pool))

Rotate(s, k) ==
    LET r == IF Len(s) = 0 THEN 0 ELSE k % Len(s)
    IN  SubSeq(s, r + 1, Len(s)) \o SubSeq(s, 1, r)

ListOfSet(pool, hs) == Rotate(Uniq(pool), hs)

\* A variant of ImsiReturn without the [:count].
ImsiReturn_NoSlice(pool, c, hs) == ListOfSet(pool, hs)

\* return list(set(possible_imsis))[:count]
ImsiReturn(pool, c, hs) == SliceTo(ListOfSet(pool, hs), c)

---------------------------------------------------------------------------
(* Device.calculate_imsis, Device.calculate_imeis *)

\* The count the Device methods pass on: min(count, MAX_CALCULATIONS).
DeviceCount(c) == Min(c, MAX_CALCULATIONS)

\* The count that reaches DataAnalyzer, by the way the call is made.
PassedCount(v, c) == IF v = "device" THEN DeviceCount(c) ELSE c

---------------------------------------------------------------------------
(* Logger.log *)

\* One line of the log: its level, the fixed text of its message and the
\* number the message holds.
LogLine(level, text, n) == [level |-> level, text |-> text, n |-> n]

\* Logger.log, once per line of lines: the line is printed, and appended to
\* LOG_FILE.
Logger_log(lines) ==
    /\ stdout' = stdout \o lines
    /\ log_file' = log_file \o lines

\* What a subscriber synthesis logs: Device.calculate_imsis its line, and
\* calculate_possible_imsis the count it was passed.
ImsiLogLines(v, c) ==
    (IF v = "device" THEN <<LogLine("INFO", "Calculating IMSIs for device", 0)>>
     ELSE <<>>)
    \o <<LogLine("DEBUG", "Calculating possible IMSIs", PassedCount(v, c))>>

\* The same of an equipment synthesis.
ImeiLogLines(v, c) ==
    (IF v = "device" THEN <<LogLine("INFO", "Calculating IMEIs for device", 0)>>
     ELSE <<>>)
    \o <<LogLine("DEBUG", "Calculating possible IMEIs", PassedCount(v, c))>>

---------------------------------------------------------------------------
(* The re module: the patterns of parse_report_content *)

\* A pattern is a sequence of elements. An element is a literal text, or a
\* character class repeated min..max times (max < 0: no upper limit),
\* greedily or lazily.
Lit(s) == [k |-> "lit", s |-> s, c |-> "", min |-> 0, max |-> 0, lazy |-> FALSE]
Cls(c, min, max, lazy) ==
    [k |-> "cls", s |-> <<>>, c |-> c, min |-> min, max |-> max, lazy |-> lazy]

LowerChars == <<"a", "b", "c", "d", "e", "f", "g", "h", "i", "j", "k", "l", "m",
                "n", "o", "p", "q", "r", "s", "t", "u", "v", "w", "x", "y", "z">>
UpperChars == <<"A", "B", "C", "D", "E", "F", "G", "H", "I", "J", "K", "L", "M",
                "N", "O", "P", "Q", "R", "S", "T", "U", "V", "W", "X", "Y", "Z">>
LetterChars == {LowerChars[i] : i \in 1..26} \cup {UpperChars[i] : i \in 1..26}

\* str.lower() on the model's alphabet.
LowerChar(c) == IF \E i \in 1..26 : UpperChars[i] = c
                THEN LowerChars[CHOOSE i \in 1..26 : UpperChars[i] = c]
                ELSE c
\* str.lower() that leaves the letters as they are.
Lower_Identity(s) == s

Lower(s) == [i \in 1..Len(s) |-> LowerChar(s[i])]

\* \s, \w, \d, the dot without and with re.DOTALL, and the sign of -?.
InClass(ch, c) ==
    CASE c = "space" -> ch \in {" ", "\n", "\t", "\r"}
      [] c = "word"  -> ch \in LetterChars \cup DigitChars \cup {"_"}
      [] c = "digit" -> ch \in DigitChars
      [] c = "dot"   -> ch # "\n"
      [] c = "any"   -> TRUE
      [] c = "minus" -> ch = "-"

\* The literal lit stands in t at position p.
LitAt(t, p, lit) ==
    /\ p + Len(lit) - 1 <= Len(t)
    /\ \A i \in 1..Len(lit) : t[p + i - 1] = lit[i]

\* How many characters from position p on are of class c, max at most.
MaxRun(t, p, c, max) ==
    LET end == CHOOSE j \in p..(Len(t) + 1) :
                   /\ (j = Len(t) + 1 \/ ~InClass(t[j], c))
                   /\ \A i \in p..(j - 1) : InClass(t[i], c)
    IN  IF max < 0 THEN end - p ELSE Min(end - p, max)

\* Whether the elements from the k-th on can begin at position q, as far as
\* the character at q tells: counts that fail this are not tried.
RECURSIVE Feasible(_, _, _, _)
Feasible(pat, k, t, q) ==
    IF k > Len(pat) THEN TRUE
    ELSE LET e == pat[k]
         IN  IF e.k = "lit" THEN LitAt(t, q, e.s)
             ELSE \/ (q <= Len(t) /\ InClass(t[q], e.c))
                  \/ (e.min = 0 /\ Feasible(pat, k + 1, t, q))

Fail == <<>>

\* The smallest and the largest element of a non-empty set S within lo..hi.
Smallest(S, lo, hi) ==
    CHOOSE x \in lo..hi : x \in S /\ \A y \in lo..(x - 1) : y \notin S
Largest(S, lo, hi) ==
    hi - (CHOOSE d \in 0..(hi - lo) :
              (hi - d) \in S /\ \A d2 \in 0..(d - 1) : (hi - d2) \notin S)

\* The backtracking match of the elements from the k-th on at position p:
\* the positions where each of them begins and, last, where the match ends;
\* Fail when there is none. A greedy element tries its longest run first, a
\* lazy one its shortest.
RECURSIVE MatchFrom(_, _, _, _)
RECURSIVE TryCounts(_, _, _, _, _, _, _, _)
MatchFrom(pat, k, t, p) ==
    IF k > Len(pat) THEN <<p>>
    ELSE LET e == pat[k]
         IN  IF e.k = "lit"
             THEN IF LitAt(t, p, e.s)
                  THEN LET rest == MatchFrom(pat, k + 1, t, p + Len(e.s))
                       IN  IF rest = Fail THEN Fail ELSE <<p>> \o rest
                  ELSE Fail
             ELSE LET hi == MaxRun(t, p, e.c, e.max)
                      counts == {c \in e.min..hi : Feasible(pat, k + 1, t, p + c)}
                  IN  IF counts = {} THEN Fail
                      ELSE TryCounts(pat, k, t, p, counts, e.min, hi, e.lazy)

TryCounts(pat, k, t, p, counts, lo, hi, lazy) ==
    LET c == IF lazy THEN Smallest(counts, lo, hi) ELSE Largest(counts, lo, hi)
        rest == MatchFrom(pat, k + 1, t, p + c)
    IN  IF rest # Fail THEN <<p>> \o rest
        ELSE IF counts = {c} THEN Fail
        ELSE TryCounts(pat, k, t, p, counts \ {c}, lo, hi, lazy)

\* Where a match can begin at or after from: where the first element can
\* stand and, the first element being a greedy unbounded class, not inside
\* a run of it (a match beginning inside the run also begins before it).
Candidates(pat, t, from) ==
    {p \in from..(Len(t) + 1) :
        /\ Feasible(pat, 1, t, p)
        /\ (pat[1].k = "cls" /\ p > from) => ~InClass(t[p - 1], pat[1].c)}

\* re.search(pat, t) from position from on: the leftmost match, or Fail.
Search(pat, t, from) ==
    LET hits == {p \in Candidates(pat, t, from) : MatchFrom(pat, 1, t, p) # Fail}
    IN  IF hits = {} THEN Fail
        ELSE MatchFrom(pat, 1, t, CHOOSE p \in hits : \A q \in hits : p <= q)

\* re.findall(pat, t): the matches from left to right, each sought from
\* where the one before it ended.
RECURSIVE FindAll(_, _, _)
FindAll(pat, t, from) ==
    LET m == Search(pat, t, from)
    IN  IF m = Fail THEN <<>> ELSE <<m>> \o FindAll(pat, t, m[Len(m)])

\* The text of the group made of the elements a..b of a match m.
Group(t, m, a, b) == SubSeq(t, m[a], m[b + 1] - 1)

---------------------------------------------------------------------------
(* DataAnalyzer.parse_report_content *)

\* No record: the parser has not been called.
NoReport == [timestamp |-> 0 - 1]

\* The longest decimal text int() converts: a longer one raises ValueError
\* (the interpreter's limit on integer string conversion).
MAX_STR_DIGITS == 4300

\* int(s) of a captured -?\d+ raises on more digits than that.
IntTooLong(s) ==
    Len(s) - (IF Len(s) > 0 /\ s[1] = "-" THEN 1 ELSE 0) > MAX_STR_DIGITS

BoolV(b) == [t |-> "bool", s |-> <<>>, n |-> IF b THEN 1 ELSE 0]

\* A dict with no key, and d[key] = v.
EmptyDict == [x \in {} |-> Absent]
Put(d, key, v) == [x \in DOMAIN d \cup {key} |-> IF x = key THEN v ELSE d[x]]

Spaces == Cls("space", 0, 0 - 1, FALSE)

\* Device:\s*(.+?)\s*-\s*(.+)
device_pattern ==
    <<Lit(<<"D", "e", "v", "i", "c", "e", ":">>), Spaces, Cls("dot", 1, 0 - 1, TRUE), Spaces,
      Lit(<<"-">>), Spaces, Cls("dot", 1, 0 - 1, FALSE)>>

\* Android:\s*(.+?)\s*\(
android_pattern ==
    <<Lit(<<"A", "n", "d", "r", "o", "i", "d", ":">>), Spaces, Cls("dot", 1, 0 - 1, TRUE), Spaces,
      Lit(<<"(">>)>>

perm_keys == <<"location_enabled", "course_location", "fine_location",
               "background_location", "phone_state", "write_access", "wifi_state">>

\* The label of each permission line.
perm_labels ==
    <<<<"I", "s", " ", "L", "o", "c", "a", "t", "i", "o", "n", " ", "E",
        "n", "a", "b", "l", "e", "d">>,
      <<"C", "o", "u", "r", "s", "e", " ", "L", "o", "c", "a", "t", "i",
        "o", "n", " ", "a", "c", "c", "e", "s", "s">>,
      <<"F", "i", "n", "e", " ", "L", "o", "c", "a", "t", "i", "o", "n",
        " ", "a", "c", "c", "e", "s", "s">>,
      <<"B", "a", "c", "k", "g", "r", "o", "u", "n", "d", " ", "L", "o",
        "c", "a", "t", "i", "o", "n", " ", "a", "c", "c", "e", "s", "s">>,
      <<"P", "h", "o", "n", "e", " ", "S", "t", "a", "t", "e", " ", "a",
        "c", "c", "e", "s", "s">>,
      <<"W", "r", "i", "t", "e", " ", "a", "c", "c", "e", "s", "s">>,
      <<"W", "i", "F", "i", " ", "S", "t", "a", "t", "e", " ", "a", "c",
        "c", "e", "s", "s">>>>

\* <label>\s*:\s*(\w+)
perm_patterns ==
    [i \in 1..Len(perm_keys) |->
        <<Lit(perm_labels[i]), Spaces, Lit(<<":">>), Spaces,
          Cls("word", 1, 0 - 1, FALSE)>>]

\* SIM\(tm\):\s*(\w+),\s*(\d+),
sim_pattern ==
    <<Lit(<<"S", "I", "M", "(", "t", "m", ")", ":">>), Spaces, Cls("word", 1, 0 - 1, FALSE), Lit(<<",">>), Spaces,
      Cls("digit", 1, 0 - 1, FALSE), Lit(<<",">>)>>

\* SSID:\s*(.+?)\n.+?RSSI:\s*(-?\d+).+?channel:\s*(\d+) with re.DOTALL
wifi_pattern ==
    <<Lit(<<"S", "S", "I", "D", ":">>), Spaces, Cls("any", 1, 0 - 1, TRUE), Lit(<<"\n">>),
      Cls("any", 1, 0 - 1, TRUE), Lit(<<"R", "S", "S", "I", ":">>), Spaces,
      Cls("minus", 0, 1, FALSE), Cls("digit", 1, 0 - 1, FALSE),
      Cls("any", 1, 0 - 1, TRUE),
      Lit(<<"c", "h", "a", "n", "n", "e", "l", ":">>), Spaces,
      Cls("digit", 1, 0 - 1, FALSE)>>

\* -- getCellLocation\s*=\s*(.+)
cell_pattern ==
    <<Lit(<<"-", "-", " ", "g", "e", "t", "C", "e", "l", "l", "L", "o", "c",
            "a", "t", "i", "o", "n">>),
      Spaces, Lit(<<"=">>), Spaces, Cls("dot", 1, 0 - 1, FALSE)>>

\* (\w+)\s*:\s*(-?\d+)
lte_pattern ==
    <<Cls("word", 1, 0 - 1, FALSE), Spaces, Lit(<<":">>), Spaces,
      Cls("minus", 0, 1, FALSE), Cls("digit", 1, 0 - 1, FALSE)>>

\* The names the generic scan keeps.
lte_allowed ==
    {<<"m", "c", "c">>,
     <<"m", "n", "c">>,
     <<"t", "a", "c">>,
     <<"p", "c", "i">>,
     <<"r", "s", "r", "p">>,
     <<"r", "s", "r", "q">>,
     <<"r", "s", "s", "n", "r">>,
     <<"b", "a", "n", "d">>,
     <<"c", "i", "d">>,
     <<"n", "i", "d">>,
     <<"a", "s", "u">>,
     <<"p", "o", "w", "e", "r">>}

\* The key of cell_info the cell-location line is kept under.
location_key == <<"l", "o", "c", "a", "t", "i", "o", "n">>

true_text == <<"t", "r", "u", "e">>

\* device_info after the Device and the Android search.
DeviceInfo(t) ==
    LET device_match == Search(device_pattern, t, 1)
        android_match == Search(android_pattern, t, 1)
        d1 == IF device_match = Fail THEN EmptyDict
              ELSE Put(Put(EmptyDict, "model", StrV(Group(t, device_match, 3, 3))),
                       "hardware", StrV(Group(t, device_match, 7, 7)))
    IN  IF android_match = Fail THEN d1
        ELSE Put(d1, "android_version", StrV(Group(t, android_match, 3, 3)))

\* The loop over zip(perm_keys, perm_patterns): a key is set when its
\* pattern is found, to whether the lowercased token is "true".
RECURSIVE PermLoop(_, _, _)
PermLoop(t, i, permissions) ==
    IF i > Len(perm_keys) THEN permissions
    ELSE LET match == Search(perm_patterns[i], t, 1)
         IN  PermLoop(t, i + 1,
                      IF match = Fail THEN permissions
                      ELSE Put(permissions, perm_keys[i],
                               BoolV(Lower(Group(t, match, 5, 5)) = true_text)))

SimInfo(t) ==
    LET sim_match == Search(sim_pattern, t, 1)
    IN  IF sim_match = Fail THEN EmptyDict
        ELSE Put(Put(EmptyDict, "operator", StrV(Group(t, sim_match, 3, 3))),
                 "mccmnc", StrV(Group(t, sim_match, 6, 6)))

\* The WiFi loop: one entry per match of re.findall, rssi and channel
\* through int().
WifiRaises(t, wifi_sections) ==
    \E i \in 1..Len(wifi_sections) :
        \/ IntTooLong(Group(t, wifi_sections[i], 8, 9))
        \/ IntTooLong(Group(t, wifi_sections[i], 13, 13))

WifiNetworks(t, wifi_sections) ==
    [i \in 1..Len(wifi_sections) |->
        [ssid |-> StrV(Group(t, wifi_sections[i], 3, 3)),
         rssi |-> IntV(ParseInt(Group(t, wifi_sections[i], 8, 9))),
         channel |-> IntV(ParseInt(Group(t, wifi_sections[i], 13, 13)))]]

CellLocation(t) ==
    LET cell_match == Search(cell_pattern, t, 1)
    IN  IF cell_match = Fail THEN EmptyDict
        ELSE Put(EmptyDict, location_key, StrV(Group(t, cell_match, 5, 5)))

\* A variant of Allowed that lets every name through.
Allowed_Any(t, m) == TRUE

\* The loop over lte_params: a match whose lowercased name is allowed sets
\* cell_info[name] to int(value).
Allowed(t, m) == Lower(Group(t, m, 1, 1)) \in lte_allowed

LteRaises(t, lte_params) ==
    \E i \in 1..Len(lte_params) :
        Allowed(t, lte_params[i]) /\ IntTooLong(Group(t, lte_params[i], 5, 6))

\* A variant of the loop in which the first match of a name is kept.
RECURSIVE LteLoop_FirstWins(_, _, _, _)
LteLoop_FirstWins(t, lte_params, i, cell_info) ==
    IF i > Len(lte_params) THEN cell_info
    ELSE LteLoop_FirstWins(t, lte_params, i + 1,
                 IF /\ Allowed(t, lte_params[i])
                    /\ Lower(Group(t, lte_params[i], 1, 1)) \notin DOMAIN cell_info
                 THEN Put(cell_info, Lower(Group(t, lte_params[i], 1, 1)),
                          IntV(ParseInt(Group(t, lte_params[i], 5, 6))))
                 ELSE cell_info)

RECURSIVE LteLoop(_, _, _, _)
LteLoop(t, lte_params, i, cell_info) ==
    IF i > Len(lte_params) THEN cell_info
    ELSE LteLoop(t, lte_params, i + 1,
                 IF Allowed(t, lte_params[i])
                 THEN Put(cell_info, Lower(Group(t, lte_params[i], 1, 1)),
                          IntV(ParseInt(Group(t, lte_params[i], 5, 6))))
                 ELSE cell_info)

\* What parse_report_content(t) ends with, and the sections it extracted.
ReportSections(t) ==
    LET wifi_sections == FindAll(wifi_pattern, t, 1)
        lte_params == FindAll(lte_pattern, t, 1)
    IN  IF WifiRaises(t, wifi_sections) \/ LteRaises(t, lte_params)
        THEN [outcome |-> "ValueError", report_data |-> NoReport]
        ELSE [outcome |-> "ok",
              report_data |->
                [device_info |-> DeviceInfo(t),
                 permissions |-> PermLoop(t, 1, EmptyDict),
                 sim_info |-> SimInfo(t),
                 wifi_info |-> [networks |-> WifiNetworks(t, wifi_sections)],
                 cell_info |-> LteLoop(t, lte_params, 1, CellLocation(t)),
                 timestamp |-> 0]]

\* A variant of Stamped that leaves the timestamp out.
Stamped_Unstamped(r, ts) == r

\* The record with the timestamp taken when the call began.
Stamped(r, ts) ==
    IF r.outcome = "ok"
    THEN [r EXCEPT !.report_data = [@ EXCEPT !.timestamp = ts]]
    ELSE r

\* parse_report_content(content) called at clock reading ts.
parse_report_content(t, ts) == Stamped(ReportSections(t), ts)

---------------------------------------------------------------------------
(* The inputs of the model *)

MccValues == {Absent, StrV(<<"3", "1", "0">>), IntV(310)}
MncValues == {Absent, StrV(<<"2", "6">>), IntV(260)}
TacValues == {Absent, IntV(40000), StrV(<<"a", "b">>)}
PciValues == {Absent, IntV(500), StrV(<<"x">>)}
CiValues == {Absent, StrV(<<"6", "0">>), StrV(<<"x">>)}
CidValues == {Absent, StrV(<<"5">>), StrV(<<"7">>)}

\* Every mapping over the six names with these values.
DataFamily == [mcc : MccValues, mnc : MncValues, tac : TacValues,
               pci : PciValues, ci : CiValues, cid : CidValues]

\* The mappings that hold at most mcc and mnc (an empty registry entry among
\* them): the ones tried with counts around MAX_CALCULATIONS.
PlainData == {d \in DataFamily : d.tac = Absent /\ d.pci = Absent
                                  /\ d.ci = Absent /\ d.cid = Absent}

EmptyData == [mcc |-> Absent, mnc |-> Absent, tac |-> Absent,
              pci |-> Absent, ci |-> Absent, cid |-> Absent]

SmallCounts == (0 - MaxNeg)..MaxCount
BigCounts == MAX_CALCULATIONS..(MAX_CALCULATIONS + MaxOver)

NoPrev == [device_data |-> EmptyData, rng |-> NoRng, pool |-> <<>>]

\* The mappings of the repeated-call specification: tac and pci set, the
\* cell id under either name.
TwiceData == {d \in DataFamily :
                /\ d.mcc = Absent /\ d.mnc = Absent
                /\ d.tac = IntV(40000) /\ d.pci = IntV(500)
                /\ d.ci \in {Absent, StrV(<<"6", "0">>)}
                /\ d.cid \in {Absent, StrV(<<"5">>)}}

\* The digit strings the check-digit computation is applied to on its own:
\* a fixed identifier, its 14-digit payload, and each of them with one
\* digit replaced.
LuhnVector == <<"3", "5", "6", "9", "3", "8", "0", "3", "5", "6", "4", "3", "8", "0", "9">>
OneDigitChanged(v) == {[v EXCEPT ![p] = Digits[k]] : p \in 1..Len(v), k \in 1..10}
LuhnInputs == OneDigitChanged(LuhnVector)
              \cup OneDigitChanged(SubSeq(LuhnVector, 1, Len(LuhnVector) - 1))

\* The text of a line of a report, by its kind (a WiFi block is kept as one
\* kind, with its line breaks).
LineText(kind) ==
    CASE kind = "device_pixel" ->
            <<"D", "e", "v", "i", "c", "e", ":", " ", "P", "i", "x", "e",
              "l", " ", "7", " ", "-", " ", "p", "a", "n", "t", "h", "e",
              "r">>
      [] kind = "device_nokia" ->
            <<"D", "e", "v", "i", "c", "e", ":", " ", "N", "o", "k", "i",
              "a", " ", "3", " ", "-", " ", "n", "e", "1">>
      [] kind = "device_nodash" ->
            <<"D", "e", "v", "i", "c", "e", ":", " ", "f", "o", "o">>
      [] kind = "device_band" ->
            <<"D", "e", "v", "i", "c", "e", ":", " ", "P", "i", "x", "e",
              "l", " ", "7", " ", "-", " ", "b", "a", "n", "d", ":", " ",
              "3">>
      [] kind = "android_14" ->
            <<"A", "n", "d", "r", "o", "i", "d", ":", " ", "1", "4", " ",
              "(", "U", "P", "B", ")">>
      [] kind = "android_bare" ->
            <<"A", "n", "d", "r", "o", "i", "d", ":", " ", "1", "1">>
      [] kind = "sim_ok" ->
            <<"S", "I", "M", "(", "t", "m", ")", ":", " ", "C", "a", "r",
              "r", "i", "e", "r", ",", " ", "3", "1", "0", "2", "6", "0",
              ",", " ", "m", "c", "c", ":", " ", "2", "0", "4">>
      [] kind = "sim_bare" ->
            <<"S", "I", "M", "(", "t", "m", ")", ":", " ", "C", "a", "r",
              "r", "i", "e", "r">>
      [] kind = "cell_loc" ->
            <<"-", "-", " ", "g", "e", "t", "C", "e", "l", "l", "L", "o",
              "c", "a", "t", "i", "o", "n", " ", "=", " ", "c", "i", "d",
              ":", " ", "7">>
      [] kind = "noise" ->
            <<"h", "e", "l", "l", "o", " ", "w", "o", "r", "l", "d">>
      [] kind = "perm_loc_true" ->
            <<"I", "s", " ", "L", "o", "c", "a", "t", "i", "o", "n", " ",
              "E", "n", "a", "b", "l", "e", "d", ":", " ", "t", "r", "u",
              "e">>
      [] kind = "perm_loc_unknown" ->
            <<"I", "s", " ", "L", "o", "c", "a", "t", "i", "o", "n", " ",
              "E", "n", "a", "b", "l", "e", "d", ":", " ", "u", "n", "k",
              "n", "o", "w", "n">>
      [] kind = "perm_course_True" ->
            <<"C", "o", "u", "r", "s", "e", " ", "L", "o", "c", "a", "t",
              "i", "o", "n", " ", "a", "c", "c", "e", "s", "s", ":", " ",
              "T", "r", "u", "e">>
      [] kind = "perm_fine_TRUE" ->
            <<"F", "i", "n", "e", " ", "L", "o", "c", "a", "t", "i", "o",
              "n", " ", "a", "c", "c", "e", "s", "s", " ", ":", " ", "T",
              "R", "U", "E">>
      [] kind = "perm_background_false" ->
            <<"B", "a", "c", "k", "g", "r", "o", "u", "n", "d", " ", "L",
              "o", "c", "a", "t", "i", "o", "n", " ", "a", "c", "c", "e",
              "s", "s", ":", " ", "f", "a", "l", "s", "e">>
      [] kind = "perm_phone_true" ->
            <<"P", "h", "o", "n", "e", " ", "S", "t", "a", "t", "e", " ",
              "a", "c", "c", "e", "s", "s", ":", "t", "r", "u", "e">>
      [] kind = "perm_write_unknown" ->
            <<"W", "r", "i", "t", "e", " ", "a", "c", "c", "e", "s", "s",
              ":", " ", "u", "n", "k", "n", "o", "w", "n">>
      [] kind = "perm_wifi_false" ->
            <<"W", "i", "F", "i", " ", "S", "t", "a", "t", "e", " ", "a",
              "c", "c", "e", "s", "s", ":", " ", "f", "a", "l", "s", "e">>
      [] kind = "lte_mcc_mnc" ->
            <<"m", "c", "c", ":", " ", "3", "1", "0", " ", "m", "n", "c",
              ":", " ", "2", "6">>
      [] kind = "lte_MCC" ->
            <<"M", "C", "C", ":", " ", "3", "1", "1">>
      [] kind = "lte_rsrp" ->
            <<"r", "s", "r", "p", " ", ":", " ", "-", "9", "0", " ", "j",
              "u", "n", "k", ":", " ", "5">>
      [] kind = "lte_tac_twice" ->
            <<"t", "a", "c", ":", " ", "5", ",", " ", "t", "a", "c", ":",
              " ", "6">>
      [] kind = "lte_xmcc" ->
            <<"x", "m", "c", "c", ":", " ", "5", " ", "m", "c", "c", "2",
              ":", " ", "6">>
      [] kind = "wifi_home" ->
            <<"S", "S", "I", "D", ":", " ", "H", "o", "m", "e", "\n", "B",
              "S", "S", "I", "D", ":", " ", "a", "a", "\n", "R", "S", "S",
              "I", ":", " ", "-", "4", "5", "\n", "c", "h", "a", "n", "n",
              "e", "l", ":", " ", "6">>
      [] kind = "wifi_cafe" ->
            <<"S", "S", "I", "D", ":", " ", "C", "a", "f", "e", "\n", " ",
              " ", "R", "S", "S", "I", ":", " ", "-", "7", "0", ",", " ",
              "c", "h", "a", "n", "n", "e", "l", ":", " ", "1", "1">>
      [] kind = "wifi_lab" ->
            <<"S", "S", "I", "D", ":", " ", "L", "a", "b", "\n", "R", "S",
              "S", "I", ":", " ", "-", "5", "0", "\n", "c", "h", "a", "n",
              "n", "e", "l", ":", " ", "1">>
      [] kind = "wifi_net" ->
            <<"S", "S", "I", "D", ":", " ", "N", "e", "t", " ", "5", "\n",
              "f", "r", "e", "q", ":", " ", "5", "1", "8", "0", " ", "R",
              "S", "S", "I", ":", " ", "-", "6", "0", " ", "c", "h", "a",
              "n", "n", "e", "l", ":", " ", "3", "6">>
      [] kind = "long_digits" ->
            <<"m", "c", "c", ":", " ">> \o [i \in 1..(MAX_STR_DIGITS + 1) |-> "1"]

\* f.read() of a file with these lines, each ended by a line break.
RECURSIVE FileText(_)
FileText(ls) ==
    IF ls = <<>> THEN <<>> ELSE LineText(Head(ls)) \o <<"\n">> \o FileText(Tail(ls))

\* Reports of up to MaxLines lines (MaxBlocks WiFi blocks), and the clock
\* readings 1..MaxClock.
MaxLines == 2
MaxBlocks == 3
MaxClock == 2

Clock == 1..MaxClock

SeqsUpTo(K, n) == UNION {[1..m -> K] : m \in 0..n}

\* The lines of the field rules: well-formed ones, ones with the label
\* alone, and a line no rule knows.
FieldKinds == {"device_pixel", "device_nokia", "device_nodash", "android_14",
               "android_bare", "sim_ok", "sim_bare", "cell_loc",
               "perm_loc_true", "perm_write_unknown", "noise"}

\* The report whose only line holds an integer of MAX_STR_DIGITS + 1 digits.
LongDoc == <<"long_digits">>

FieldDocs == SeqsUpTo(FieldKinds, MaxLines) \cup {LongDoc}

\* The seven permission lines, with tokens in several spellings.
PermKinds == {"perm_loc_true", "perm_loc_unknown", "perm_course_True",
              "perm_fine_TRUE", "perm_background_false", "perm_phone_true",
              "perm_write_unknown", "perm_wifi_false"}

PermDocs == SeqsUpTo(PermKinds, MaxLines)

\* Lines with <name>: <integer> items, on their own and inside the lines of
\* other rules.
LteKinds == {"lte_mcc_mnc", "lte_MCC", "lte_rsrp", "lte_tac_twice", "lte_xmcc",
             "sim_ok", "cell_loc", "device_band", "noise"}

LteDocs == SeqsUpTo(LteKinds, MaxLines)

\* WiFi blocks: an SSID line, then an RSSI and a channel value.
WifiKinds == {"wifi_home", "wifi_cafe", "wifi_lab", "wifi_net"}

WifiDocs == SeqsUpTo(WifiKinds, MaxBlocks)

---------------------------------------------------------------------------
(* Device, DeviceManager: the registry and DEVICE_DB_FILE *)

\* At most MaxDevices Device ids are drawn, and a device is seen at most
\* MaxSeen times.
MaxDevices == 3
MaxSeen == 2

\* At most MaxThreads Thread objects are made.
MaxThreads == 2

Threads == 1..MaxThreads

\* Who calls the registry: the main thread (the console), or monitor thread t.
Main == 0
Callers == {Main} \cup Threads

\* Instants are counted by the Device ids drawn so far: datetime.now() at
\* the n-th Device is n.

\* datetime.isoformat() and datetime.fromisoformat()
isoformat(instant) == <<"iso", instant>>
fromisoformat(text) == text[2]

\* A variant of update that replaces the data by the new data.
update_ReplacesData(existing, new_data, now) ==
    [existing EXCEPT !.data = new_data, !.last_seen = now, !.times_seen = @ + 1]

\* Device(device_type, data) at instant now: the id is os.urandom(4) in hex,
\* here the n-th id drawn; times_seen starts at 1. A dict is a function from
\* its keys.
Device(n, device_type, data, now) ==
    [id |-> n, device_type |-> device_type, data |-> data,
     first_seen |-> now, last_seen |-> now, times_seen |-> 1,
     location_history |-> <<>>]

\* Device.update(new_data) at instant now
update(existing, new_data, now) ==
    [existing EXCEPT
        !.data = [key \in DOMAIN @ \cup DOMAIN new_data |->
                    IF key \in DOMAIN new_data THEN new_data[key] ELSE @[key]],
        !.last_seen = now,
        !.times_seen = @ + 1]

\* Device.add_location(location) at instant now
add_location(device, location, now) ==
    [device EXCEPT
        !.location_history =
            Append(@, [timestamp |-> isoformat(now), location |-> location]),
        !.data = [key \in DOMAIN @ \cup {"last_location"} |->
                    IF key = "last_location" THEN location ELSE @[key]]]

\* Device.to_dict, and Device.from_dict.
to_dict(device) ==
    [id |-> device.id, device_type |-> device.device_type,
     data |-> device.data,
     first_seen |-> isoformat(device.first_seen),
     last_seen |-> isoformat(device.last_seen),
     times_seen |-> device.times_seen,
     location_history |-> device.location_history]

from_dict(data) ==
    [id |-> data.id, device_type |-> data.device_type, data |-> data.data,
     first_seen |-> fromisoformat(data.first_seen),
     last_seen |-> fromisoformat(data.last_seen),
     times_seen |-> data.times_seen,
     location_history |-> data.location_history]

\* What the telemetry gives: the serving cell, and a location.
cell_data == ("mcc" :> "310" @@ "pci" :> "7")
location_data == "gps"

\* The Devices the commands and the monitor make: scan cell and the monitor
\* ("cell_tower"), track device and the monitor ("phone", with a location),
\* import <file> ("report").
NewDevice(n, device_type) ==
    CASE device_type = "cell_tower" -> Device(n, "cell_tower", cell_data, n)
      [] device_type = "phone" ->
            add_location(Device(n, "phone", ("status" :> "active"), n),
                         location_data, n)
      [] device_type = "report" -> Device(n, "report", ("timestamp" :> "1"), n)

\* An entry of a file given to load <file>: a device with the id of one the
\* registry holds, as some earlier session saved it.
FileEntry(id) ==
    [id |-> id, device_type |-> "cell_tower",
     data |-> ("mcc" :> "311" @@ "tac" :> "5"),
     first_seen |-> isoformat(0), last_seen |-> isoformat(0),
     times_seen |-> 1, location_history |-> <<>>]

\* Where device id is in the OrderedDict (0: not in it).
IndexOf(ds, id) ==
    IF \E i \in 1..Len(ds) : ds[i].id = id
    THEN CHOOSE i \in 1..Len(ds) : ds[i].id = id
    ELSE 0

\* self.devices after the if/else of add_device(device) at instant now.
Inserted(ds, device, now) ==
    LET i == IndexOf(ds, device.id)
    IN  IF i # 0
        THEN [ds EXCEPT ![i] = update(ds[i], device.data, now)]
        ELSE Append(ds, device)

\* devices_data = [device.to_dict() for device in self.devices.values()]
Snapshot(ds) == [i \in 1..Len(ds) |-> to_dict(ds[i])]

\* self.devices after load_devices() read the list file.
RECURSIVE Loaded(_, _)
Loaded(ds, file) ==
    IF file = <<>> THEN ds
    ELSE LET device == from_dict(Head(file))
             i == IndexOf(ds, device.id)
         IN  Loaded(IF i # 0 THEN [ds EXCEPT ![i] = device] ELSE Append(ds, device),
                    Tail(file))

---------------------------------------------------------------------------
(* DataMonitor *)

\* live [device_id]: no argument, "phone", or the id of some device.
Targets == {"None", "phone", "a1b2c3d4"}

\* not self.target_device or self.target_device == "phone"
WantsLocation(target) == target = "None" \/ target = "phone"

\* A variant of join() that returns at once.
JoinReturns_NoWait(ts, th) == ts[th] \in {"alive", "finished"}

\* Thread.join(): returns when the thread has ended, waits while it runs,
\* and raises RuntimeError on a thread that was never started.
JoinReturns(ts, th) == ts[th] = "finished"
JoinRaises(ts, th) == ts[th] = "created"

\* The Thread objects made so far.
Made(ts) == {t \in Threads : ts[t] # "unborn"}

---------------------------------------------------------------------------
(* The state machine: a call from the prompt, and its return *)

Init ==
    /\ pc = "idle"
    /\ op = "none"
    /\ via = "none"
    /\ device_data = EmptyData
    /\ count = 0
    /\ rng = NoRng
    /\ hashseed = 0
    /\ outcome = "none"
    /\ possible_imsis = <<>>
    /\ result = <<>>
    /\ prev = NoPrev
    /\ base_digits = <<>>
    /\ digit = 0 - 1
    /\ log_file = <<>>
    /\ stdout = <<>>
    /\ report_lines = <<>>
    /\ content = <<>>
    /\ report_data = NoReport
    /\ running = FALSE
    /\ thread = 0
    /\ target_device = "None"
    /\ device_id = "None"
    /\ thread_state = [t \in Threads |-> "unborn"]
    /\ mpc = [t \in Threads |-> "none"]
    /\ devices = <<>>
    /\ db_file = <<>>
    /\ adding = [c \in Callers |-> <<>>]
    /\ devices_data = [c \in Callers |-> <<>>]
    /\ created = 0

\* A call of calculate_possible_imsis, directly or through
\* Device.calculate_imsis, with a mapping of D and a count of C. The random
\* source and the set order are drawn only by a call that reaches them.
CalcImsis(v, D, C) ==
    /\ pc = "idle"
    /\ \E d \in D, c \in C :
        LET cc == PassedCount(v, c)
            o == ImsiOutcome(d, cc)
            n == ImsiIterations(cc)
        IN  /\ pc' = "returned"
            /\ op' = "imsi"
            /\ via' = v
            /\ device_data' = d
            /\ count' = c
            /\ outcome' = o
            /\ IF o # "ok" \/ n = 0
               THEN /\ rng' = NoRng
                    /\ hashseed' = 0
                    /\ possible_imsis' = <<>>
                    /\ result' = <<>>
               ELSE \E r \in Rngs, hs \in 0..MaxHashSeed :
                    /\ rng' = r
                    /\ hashseed' = hs
                    /\ possible_imsis' = ImsiPool(d, r, n)
                    /\ result' = ImsiReturn(possible_imsis', cc, hs)
            /\ Logger_log(ImsiLogLines(v, c))
            /\ UNCHANGED <<prev, base_digits, digit, parserVars, monitorVars,
                           registryVars>>

\* A call of calculate_possible_imeis, directly or through
\* Device.calculate_imeis, with a count of C.
CalcImeis(v, C) ==
    /\ pc = "idle"
    /\ \E c \in C :
        LET cc == PassedCount(v, c)
        IN  /\ pc' = "returned"
            /\ op' = "imei"
            /\ via' = v
            /\ count' = c
            /\ outcome' = "ok"
            /\ IF RangeLen(Min(cc, MAX_CALCULATIONS)) = 0
               THEN /\ rng' = NoRng
                    /\ result' = <<>>
               ELSE \E r \in Rngs :
                    /\ rng' = r
                    /\ result' = calculate_possible_imeis(cc, r)
            /\ Logger_log(ImeiLogLines(v, c))
            /\ UNCHANGED <<device_data, hashseed, possible_imsis, prev,
                           base_digits, digit, parserVars, monitorVars,
                           registryVars>>

\* The check-digit computation of the loop, applied to given digits.
ApplyCheckDigit ==
    /\ pc = "idle"
    /\ \E b \in LuhnInputs :
        /\ pc' = "returned"
        /\ op' = "check_digit"
        /\ base_digits' = b
        /\ digit' = check_digit(b)
    /\ UNCHANGED <<via, device_data, count, rng, hashseed, outcome,
                   possible_imsis, result, prev, logVars, parserVars,
                   monitorVars, registryVars>>

\* A call of parse_report_content with the text of a report of D, at some
\* clock reading.
ParseReport(D) ==
    /\ pc = "idle"
    /\ \E ls \in D :
        LET t == FileText(ls)
            sections == ReportSections(t)
        IN  \E ts \in Clock :
            LET r == Stamped(sections, ts)
            IN  /\ pc' = "returned"
                /\ op' = "parse"
                /\ report_lines' = ls
                /\ content' = t
                /\ outcome' = r.outcome
                /\ report_data' = r.report_data
    /\ UNCHANGED <<synthesisVars, logVars, monitorVars, registryVars>>

\* The caller has the result; the console is back at its prompt.
BackToPrompt ==
    /\ pc = "returned"
    /\ pc' = "idle"
    /\ op' = "none"
    /\ via' = "none"
    /\ device_data' = EmptyData
    /\ count' = 0
    /\ rng' = NoRng
    /\ hashseed' = 0
    /\ outcome' = "none"
    /\ possible_imsis' = <<>>
    /\ result' = <<>>
    /\ base_digits' = <<>>
    /\ digit' = 0 - 1
    /\ log_file' = <<>>
    /\ stdout' = <<>>
    /\ report_lines' = <<>>
    /\ content' = <<>>
    /\ report_data' = NoReport
    /\ UNCHANGED <<monitorVars, registryVars>>

Return == BackToPrompt /\ UNCHANGED prev

\* The same, remembering the subscriber synthesis that just ended.
ReturnKeep ==
    /\ BackToPrompt
    /\ prev' = IF op = "imsi" /\ outcome = "ok"
               THEN [device_data |-> device_data, rng |-> rng,
                     pool |-> possible_imsis]
               ELSE prev

---------------------------------------------------------------------------
(* The console loop, DataMonitor.start and stop, and the monitor threads *)

At(c) == IF c = Main THEN pc ELSE mpc[c]

Goto(c, line) ==
    IF c = Main
    THEN pc' = line /\ UNCHANGED mpc
    ELSE mpc' = [mpc EXCEPT ![c] = line] /\ UNCHANGED pc

\* The variables of the calls modelled above.
callVars == <<op, outcome, synthesisVars, logVars, parserVars>>

\* The live command: handle_live_command calls monitor.start(device_id).
LiveCommand ==
    /\ pc = "idle"
    /\ running \/ Made(thread_state) # Threads
    /\ \E id \in Targets : device_id' = id
    /\ pc' = "start_481"
    /\ UNCHANGED <<callVars, running, thread, target_device, thread_state, mpc,
                   registryVars>>

\* if self.running: return
Start481 ==
    /\ pc = "start_481"
    /\ IF running
       THEN pc' = "idle" /\ device_id' = "None"
       ELSE pc' = "start_484" /\ UNCHANGED device_id
    /\ UNCHANGED <<callVars, running, thread, target_device, thread_state, mpc,
                   registryVars>>

\* self.running = True
Start484 ==
    /\ pc = "start_484"
    /\ running' = TRUE
    /\ pc' = "start_485"
    /\ UNCHANGED <<callVars, thread, target_device, device_id, thread_state,
                   mpc, registryVars>>

\* self.target_device = device_id
Start485 ==
    /\ pc = "start_485"
    /\ target_device' = device_id
    /\ pc' = "start_486"
    /\ UNCHANGED <<callVars, running, thread, device_id, thread_state, mpc,
                   registryVars>>

\* self.thread = threading.Thread(target=self.monitor_loop, daemon=True)
Start486 ==
    /\ pc = "start_486"
    /\ \E t \in Threads :
        /\ t \notin Made(thread_state)
        /\ \A u \in Threads : u < t => u \in Made(thread_state)
        /\ thread' = t
        /\ thread_state' = [thread_state EXCEPT ![t] = "created"]
    /\ pc' = "start_487"
    /\ UNCHANGED <<callVars, running, target_device, device_id, mpc,
                   registryVars>>

\* self.thread.start(), and the return to the prompt
Start487 ==
    /\ pc = "start_487"
    /\ thread_state' = [thread_state EXCEPT ![thread] = "alive"]
    /\ mpc' = [mpc EXCEPT ![thread] = "loop_499"]
    /\ pc' = "idle"
    /\ device_id' = "None"
    /\ UNCHANGED <<callVars, running, thread, target_device, registryVars>>

\* The lines of the try block of the console loop the main thread can be at.
InTry == {"idle", "start_481", "start_484", "start_485", "start_486",
          "start_487", "add_430", "save_443", "save_444"}

\* The lines of the except KeyboardInterrupt block.
InHandler == {"except_576", "stop_492", "stop_493"}

\* CTRL+C while the main thread is in the try block: KeyboardInterrupt is
\* raised there, the command is abandoned, and the handler begins.
Interrupt ==
    /\ pc \in InTry
    /\ pc' = "except_576"
    /\ device_id' = "None"
    /\ adding' = [adding EXCEPT ![Main] = <<>>]
    /\ devices_data' = [devices_data EXCEPT ![Main] = <<>>]
    /\ UNCHANGED <<callVars, running, thread, target_device, thread_state, mpc,
                   devices, db_file, created>>

\* if self.monitor.running: self.monitor.stop()   else: print
Except576 ==
    /\ pc = "except_576"
    /\ pc' = IF running THEN "stop_492" ELSE "idle"
    /\ UNCHANGED <<callVars, monitorVars, registryVars>>

\* self.running = False
Stop492 ==
    /\ pc = "stop_492"
    /\ running' = FALSE
    /\ pc' = "stop_493"
    /\ UNCHANGED <<callVars, thread, target_device, device_id, thread_state,
                   mpc, registryVars>>

\* The process ends: the main thread leaves the console loop with an
\* exception nothing catches, and the daemon threads end with it.
Exits ==
    /\ pc' = "exited"
    /\ thread_state' = [t \in Threads |->
                          IF thread_state[t] = "alive" THEN "finished"
                          ELSE thread_state[t]]
    /\ mpc' = [t \in Threads |-> "none"]
    /\ adding' = [c \in Callers |-> <<>>]
    /\ devices_data' = [c \in Callers |-> <<>>]
    /\ device_id' = "None"
    /\ UNCHANGED <<callVars, running, thread, target_device, devices, db_file,
                   created>>

\* if self.thread: self.thread.join(), and the return to the prompt. join()
\* on a Thread that was made and never started raises RuntimeError inside
\* the handler.
Stop493 ==
    /\ pc = "stop_493"
    /\ IF thread = 0
       THEN pc' = "idle" /\ UNCHANGED <<monitorVars, registryVars>>
       ELSE IF JoinRaises(thread_state, thread)
       THEN Exits
       ELSE /\ JoinReturns(thread_state, thread)
            /\ pc' = "idle"
            /\ UNCHANGED <<monitorVars, registryVars>>
    /\ UNCHANGED callVars

\* CTRL+C while the main thread is in the handler (in stop(), waiting in
\* join() or not): KeyboardInterrupt leaves the console loop.
InterruptInHandler ==
    /\ pc \in InHandler
    /\ Exits
    /\ UNCHANGED callVars

\* The exit command: sys.exit(0).
ExitCommand ==
    /\ pc = "idle"
    /\ Exits
    /\ UNCHANGED callVars

\* while self.running: ... one round of monitor_loop up to its first
\* add_device: the cell tower Device is made, then, with a location, the
\* phone Device, which is added first.
MonitorIterate(t) ==
    /\ thread_state[t] = "alive"
    /\ mpc[t] = "loop_499"
    /\ running
    /\ \E location \in (IF WantsLocation(target_device) THEN BOOLEAN ELSE {FALSE}) :
        LET cell_device == NewDevice(created + 1, "cell_tower")
            phone_device == NewDevice(created + 2, "phone")
        IN  /\ created + (IF location THEN 2 ELSE 1) <= MaxDevices
            /\ created' = created + (IF location THEN 2 ELSE 1)
            /\ adding' = [adding EXCEPT ![t] =
                            IF location THEN <<phone_device, cell_device>>
                            ELSE <<cell_device>>]
    /\ mpc' = [mpc EXCEPT ![t] = "add_430"]
    /\ UNCHANGED <<pc, callVars, running, thread, target_device, device_id,
                   thread_state, devices, db_file, devices_data>>

\* while self.running: the flag is False and monitor_loop returns.
MonitorReturn(t) ==
    /\ thread_state[t] = "alive"
    /\ mpc[t] = "loop_499"
    /\ ~running
    /\ thread_state' = [thread_state EXCEPT ![t] = "finished"]
    /\ mpc' = [mpc EXCEPT ![t] = "none"]
    /\ UNCHANGED <<pc, callVars, running, thread, target_device, device_id,
                   registryVars>>

\* add_device(device), lines 430-436, by caller c.
AddDevice(c) ==
    /\ At(c) = "add_430"
    /\ devices' = Inserted(devices, Head(adding[c]), created)
    /\ Goto(c, "save_443")
    /\ UNCHANGED <<callVars, running, thread, target_device, device_id,
                   thread_state, db_file, adding, devices_data, created>>

\* save_devices(), line 443, by caller c.
SaveSnapshot(c) ==
    /\ At(c) = "save_443"
    /\ devices_data' = [devices_data EXCEPT ![c] = Snapshot(devices)]
    /\ Goto(c, "save_444")
    /\ UNCHANGED <<callVars, running, thread, target_device, device_id,
                   thread_state, devices, db_file, adding, created>>

\* save_devices(), lines 444-445, by caller c, and what follows the call:
\* the next add_device of the round, or the prompt (the sleep and the next
\* round, for a monitor thread).
SaveWrite(c) ==
    /\ At(c) = "save_444"
    /\ db_file' = devices_data[c]
    /\ devices_data' = [devices_data EXCEPT ![c] = <<>>]
    /\ LET rest == IF adding[c] = <<>> THEN <<>> ELSE Tail(adding[c])
       IN  /\ adding' = [adding EXCEPT ![c] = rest]
           /\ Goto(c, IF rest # <<>> THEN "add_430"
                      ELSE IF c = Main THEN "idle" ELSE "loop_499")
    /\ UNCHANGED <<callVars, running, thread, target_device, device_id,
                   thread_state, devices, created>>

\* A console command that makes a Device and adds it: scan cell
\* ("cell_tower"), track device ("phone"), import <file> ("report").
AddCommand(device_type) ==
    /\ pc = "idle"
    /\ created < MaxDevices
    /\ created' = created + 1
    /\ adding' = [adding EXCEPT ![Main] = <<NewDevice(created + 1, device_type)>>]
    /\ pc' = "add_430"
    /\ UNCHANGED <<callVars, monitorVars, devices, db_file, devices_data>>

\* load <file>, with a file that lists a device the registry holds.
LoadFileCommand ==
    /\ pc = "idle"
    /\ \E i \in 1..Len(devices) :
        /\ devices[i].times_seen < MaxSeen
        /\ adding' = [adding EXCEPT ![Main] =
                        <<from_dict(FileEntry(devices[i].id))>>]
    /\ pc' = "add_430"
    /\ UNCHANGED <<callVars, monitorVars, devices, db_file, devices_data, created>>

\* load: DEVICE_MANAGER.load_devices()
LoadCommand ==
    /\ pc = "idle"
    /\ devices' = Loaded(devices, db_file)
    /\ UNCHANGED <<pc, callVars, monitorVars, db_file, adding, devices_data, created>>

\* save: DEVICE_MANAGER.save_devices()
SaveCommand ==
    /\ pc = "idle"
    /\ pc' = "save_443"
    /\ UNCHANGED <<callVars, monitorVars, registryVars>>

---------------------------------------------------------------------------
(* The specifications *)

DeviceImsis == CalcImsis("device", DataFamily, SmallCounts)
DirectImsis == CalcImsis("direct", DataFamily, SmallCounts)
DeviceImsisBig == CalcImsis("device", PlainData, BigCounts)
DirectImsisBig == CalcImsis("direct", PlainData, BigCounts)
DeviceImeis == CalcImeis("device", SmallCounts \cup BigCounts)
DirectImeis == CalcImeis("direct", SmallCounts \cup BigCounts)
RepeatedImsis == CalcImsis("device", TwiceData, {MaxCount})
DirectImsisPlain == CalcImsis("direct", PlainData, SmallCounts)
ParseFields == ParseReport(FieldDocs)
ParsePerms == ParseReport(PermDocs)
ParseLte == ParseReport(LteDocs)
ParseWifi == ParseReport(WifiDocs)
ScanCommand == AddCommand("cell_tower")
TrackCommand == AddCommand("phone")
ImportCommand == AddCommand("report")
MonitorLoop == \E t \in Threads : MonitorIterate(t)
MonitorEnds == \E t \in Threads : MonitorReturn(t)
MonitorAddDevice == \E t \in Threads : AddDevice(t)
MonitorSnapshot == \E t \in Threads : SaveSnapshot(t)
MonitorWrite == \E t \in Threads : SaveWrite(t)
ConsoleAddDevice == AddDevice(Main)
ConsoleSnapshot == SaveSnapshot(Main)
ConsoleWrite == SaveWrite(Main)

\* The steps of start().
Starting == Start481 \/ Start484 \/ Start485 \/ Start486 \/ Start487

\* The steps of the except KeyboardInterrupt block.
Handling == Except576 \/ Stop492 \/ Stop493

\* The steps of the monitor threads.
Monitoring ==
    MonitorLoop \/ MonitorEnds \/ MonitorAddDevice \/ MonitorSnapshot \/ MonitorWrite

\* The same while the flag stays True.
MonitorRuns ==
    MonitorLoop \/ MonitorAddDevice \/ MonitorSnapshot \/ MonitorWrite

\* The steps of add_device and save_devices in the main thread.
ConsoleSaving == ConsoleAddDevice \/ ConsoleSnapshot \/ ConsoleWrite

Next ==
    \/ DeviceImsis
    \/ DirectImsis
    \/ DeviceImsisBig
    \/ DirectImsisBig
    \/ DeviceImeis
    \/ DirectImeis
    \/ ApplyCheckDigit
    \/ ParseFields
    \/ ParsePerms
    \/ ParseLte
    \/ ParseWifi
    \/ Return
    \/ LiveCommand
    \/ Starting
    \/ Interrupt
    \/ Handling
    \/ InterruptInHandler
    \/ ExitCommand
    \/ Monitoring
    \/ ScanCommand
    \/ TrackCommand
    \/ ImportCommand
    \/ LoadFileCommand
    \/ LoadCommand
    \/ SaveCommand
    \/ ConsoleSaving

Spec == Init /\ [][Next]_vars

\* Live monitoring: the live command, CTRL+C, exit, and the monitor threads.
NextLive ==
    \/ LiveCommand
    \/ Starting
    \/ Interrupt
    \/ Handling
    \/ InterruptInHandler
    \/ ExitCommand
    \/ Monitoring
SpecLive == Init /\ [][NextLive]_vars

\* The same, with threads that are scheduled: a monitor thread that can take
\* a step takes it in the end, and so does the main thread in the handler.
SpecLiveFair == SpecLive /\ WF_vars(Monitoring) /\ WF_vars(Handling)

\* The registry under the console's commands and a monitor thread.
NextRegistry ==
    \/ LiveCommand
    \/ Starting
    \/ MonitorRuns
    \/ ScanCommand
    \/ TrackCommand
    \/ ImportCommand
    \/ LoadFileCommand
    \/ LoadCommand
    \/ SaveCommand
    \/ ConsoleSaving
SpecRegistry == Init /\ [][NextRegistry]_vars

\* Equipment-identifier synthesis alone.
NextImei == DeviceImeis \/ DirectImeis \/ Return
SpecImei == Init /\ [][NextImei]_vars

\* Subscriber-identifier synthesis with small counts, over every mapping.
NextImsi == DeviceImsis \/ Return
SpecImsi == Init /\ [][NextImsi]_vars

\* Both syntheses with counts around MAX_CALCULATIONS.
NextClamp == DeviceImsisBig \/ DirectImsisBig \/ DeviceImeis \/ DirectImeis \/ Return
SpecClamp == Init /\ [][NextClamp]_vars

\* Subscriber synthesis called again and again, each call seeing the one before.
NextTwice == RepeatedImsis \/ ReturnKeep
SpecTwice == Init /\ [][NextTwice]_vars

\* The check-digit computation on its own.
NextLuhn == ApplyCheckDigit \/ Return
SpecLuhn == Init /\ [][NextLuhn]_vars

\* The three functions called directly, one call at a time.
NextPure == ParseFields \/ DirectImsisPlain \/ DirectImeis \/ Return
SpecPure == Init /\ [][NextPure]_vars

\* The parser on the lines of the field rules.
NextFields == ParseFields \/ Return
SpecFields == Init /\ [][NextFields]_vars

\* The parser on permission lines.
NextPerm == ParsePerms \/ Return
SpecPerm == Init /\ [][NextPerm]_vars

\* The parser on lines with <name>: <integer> items.
NextLte == ParseLte \/ Return
SpecLte == Init /\ [][NextLte]_vars

\* The parser on WiFi blocks.
NextWifi == ParseWifi \/ Return
SpecWifi == Init /\ [][NextWifi]_vars

---------------------------------------------------------------------------
(* Properties *)

\* The check digit of the standard Luhn algorithm for a payload: counted
\* from the right, the payload's last digit and every second digit before
\* it are doubled (9 subtracted from a double above 9).
StandardCheckDigit(payload) ==
    LET n == Len(payload)
        Term(j) == LET d == DigitVal(payload[n - j])
                   IN  IF j % 2 = 0
                       THEN (IF 2 * d > 9 THEN 2 * d - 9 ELSE 2 * d)
                       ELSE d
        sum[j \in 0..n] == IF j = 0 THEN 0 ELSE sum[j - 1] + Term(j - 1)
    IN  (10 - (sum[n] % 10)) % 10

IsPrefix(p, s) == Len(p) <= Len(s) /\ SubSeq(s, 1, Len(p)) = p

TacPrefixes == {tac_db[i] : i \in 1..Len(tac_db)}

\* C1: every identifier calculate_possible_imeis returns passes Luhn
\* validation: its 15th digit is the standard Luhn check digit of its first
\* 14 digits.
C1_ImeisPassLuhn ==
    (pc = "returned" /\ op = "imei") =>
        \A k \in 1..Len(result) :
            /\ Len(result[k]) = 15
            /\ DigitVal(result[k][15]) = StandardCheckDigit(SubSeq(result[k], 1, 14))

\* C2: for a count c in 0..MAX_CALCULATIONS, calculate_possible_imeis
\* returns exactly c strings (duplicates kept), each of 15 decimal digits
\* that start with one of the three prefixes.
C2_ImeiCountAndShape ==
    (pc = "returned" /\ op = "imei" /\ count \in 0..MAX_CALCULATIONS) =>
        /\ Len(result) = count
        /\ \A k \in 1..Len(result) :
            /\ Len(result[k]) = 15
            /\ IsDigitString(result[k])
            /\ SubSeq(result[k], 1, 2) \in TacPrefixes

\* A call with count MAX_CALCULATIONS whose random source repeats itself:
\* all MAX_CALCULATIONS identifiers are returned, equal ones included.
C2_Witness ==
    /\ pc = "returned" /\ op = "imei" /\ count = MAX_CALCULATIONS
    /\ Len(result) = MAX_CALCULATIONS
    /\ result[1] = result[2]

\* C3 (as amended): the check-digit computation of the loop, applied to the
\* digits 356938035643809, produces 6.
C3_VectorDigitIsSix ==
    (pc = "returned" /\ op = "check_digit" /\ base_digits = LuhnVector) => digit = 6

\* C3 (as stated): applied to the digits 356938035643809 it produces 7.
C3_VectorDigitIsSeven ==
    (pc = "returned" /\ op = "check_digit" /\ base_digits = LuhnVector) => digit = 7

C3_Witness ==
    pc = "returned" /\ op = "check_digit" /\ base_digits = LuhnVector /\ digit \in 0..9

\* The text mcc + mnc every candidate of a call starts with.
MccMnc(d) == Str(Mcc(d)) \o Str(Mnc(d))

StringMccMnc(d) == d.mcc.t # "int" /\ d.mnc.t # "int"

ImsiReturned == pc = "returned" /\ op = "imsi"

\* C4 (as amended): with string mcc and mnc, calculate_possible_imsis
\* returns at most max(c, 0) strings, and each starts with mcc + mnc.
C4_AtMostCountWithPrefix ==
    (ImsiReturned /\ outcome = "ok" /\ StringMccMnc(device_data)) =>
        /\ Len(result) <= Max(count, 0)
        /\ \A k \in 1..Len(result) : IsPrefix(MccMnc(device_data), result[k])

\* C4 (as stated): it returns at most c strings, for every count c.
C4_AtMostCount ==
    (ImsiReturned /\ outcome = "ok" /\ StringMccMnc(device_data)) =>
        /\ Len(result) <= count
        /\ \A k \in 1..Len(result) : IsPrefix(MccMnc(device_data), result[k])

\* A call with a 2-digit mnc of its own and count 2 that returned 2 strings.
C4_Witness ==
    /\ ImsiReturned /\ outcome = "ok"
    /\ device_data.mnc = StrV(<<"2", "6">>)
    /\ count = 2 /\ Len(result) = 2
    /\ Len(possible_imsis) = 6

\* C5: every subscriber identifier returned is a string of exactly 15
\* decimal digits.
C5_FifteenDigits ==
    (ImsiReturned /\ outcome = "ok") =>
        \A k \in 1..Len(result) : Len(result[k]) = 15 /\ IsDigitString(result[k])

\* The number of elements the same call returns when asked for
\* MAX_CALCULATIONS.
LenAtMax ==
    IF op = "imei" THEN Len(calculate_possible_imeis(MAX_CALCULATIONS, rng))
    ELSE Len(ImsiReturn(ImsiPool(device_data, rng, ImsiIterations(MAX_CALCULATIONS)),
                        MAX_CALCULATIONS, hashseed))

\* C6: both syntheses clamp the count to 0..MAX_CALCULATIONS: at most
\* MAX_CALCULATIONS elements are returned, none for a count of 0 or below,
\* and for a count above MAX_CALCULATIONS as many as for MAX_CALCULATIONS.
C6_CountClamped ==
    (pc = "returned" /\ op \in {"imsi", "imei"} /\ outcome = "ok") =>
        /\ Len(result) <= MAX_CALCULATIONS
        /\ (count <= 0 => result = <<>>)
        /\ (count > MAX_CALCULATIONS => Len(result) = LenAtMax)

\* C7: a synthesis call never raises.
C7_NeverThrows ==
    (pc = "returned" /\ op \in {"imsi", "imei"}) => outcome = "ok"

\* A tac, pci or ci value that is a string int() does not accept.
NonNumeric(d) ==
    \E key \in {"tac", "pci", "ci"} : d[key].t = "str" /\ ~IsIntLiteral(d[key].s)

LoopRuns == ImsiIterations(PassedCount(via, count)) >= 1

\* C8 (as amended): with count >= 1 and a non-numeric string under tac, pci
\* or ci, the call raises and returns no list: ValueError when mcc and mnc
\* are strings, TypeError when one of them is not.
C8_NonNumericRaises ==
    (ImsiReturned /\ LoopRuns /\ NonNumeric(device_data)) =>
        /\ result = <<>>
        /\ outcome = IF StringMccMnc(device_data) THEN "ValueError" ELSE "TypeError"

\* C8 (as stated): the violation surfaces as an InvalidParameterError.
C8_InvalidParameterError ==
    (ImsiReturned /\ LoopRuns /\ NonNumeric(device_data)) =>
        /\ result = <<>>
        /\ outcome = "InvalidParameterError"

C8_Witness ==
    /\ ImsiReturned /\ count = 1
    /\ device_data.tac = StrV(<<"a", "b">>)
    /\ device_data.mcc = Absent /\ device_data.mnc = Absent
    /\ outcome = "ValueError"

\* The operands the loop reads are the same in both mappings.
SameOperands(a, b) ==
    \A key \in {"mcc", "mnc", "tac", "pci", "ci"} : a[key] = b[key]

Iterations(pool) == Len(pool) \div 3

C10_CidIsOperand ==
    (ImsiReturned /\ outcome = "ok" /\ Len(possible_imsis) >= 3) =>
        possible_imsis[2] =
            MccMnc(device_data) \o
            ZFill(IntToStr(PyMod(IntOf(Tac(device_data)) * IntOf(Pci(device_data))
                                 * IntOf(Get(device_data, "cid", StrV(<<"0">>))),
                                 MOD_BASE)),
                  ZFILL_WIDTH)

\* C11: a call of parse_report_content, calculate_possible_imsis or
\* calculate_possible_imeis performs no I/O: when it returns it has printed
\* no line and appended none to the log file.
C11_NoOutput ==
    (pc = "returned" /\ op \in {"parse", "imsi", "imei"}) =>
        stdout = <<>> /\ log_file = <<>>

ParseReturned == pc = "returned" /\ op = "parse"

\* The lines no pattern of the parser matches, alone or in a row.
UnmatchedKinds == {"noise", "sim_bare", "device_nodash"}

Unrecognized(ls) == \A i \in 1..Len(ls) : ls[i] \in UnmatchedKinds

\* C12 (as amended): for the empty text and for a text that matches no
\* pattern, the parser returns a record whose device_info, permissions,
\* sim_info and cell_info are empty, whose wifi_info holds networks, an
\* empty list, and nothing else, and whose timestamp is set.
C12_EmptyTextRecord ==
    (ParseReturned /\ Unrecognized(report_lines)) =>
        /\ outcome = "ok"
        /\ report_data.device_info = EmptyDict
        /\ report_data.permissions = EmptyDict
        /\ report_data.sim_info = EmptyDict
        /\ report_data.cell_info = EmptyDict
        /\ report_data.wifi_info = [networks |-> <<>>]
        /\ report_data.timestamp \in Clock

\* C12 (as stated): all five sub-maps are empty, wifi_info among them.
C12_AllSubMapsEmpty ==
    (ParseReturned /\ Unrecognized(report_lines)) =>
        /\ outcome = "ok"
        /\ report_data.device_info = EmptyDict
        /\ report_data.permissions = EmptyDict
        /\ report_data.sim_info = EmptyDict
        /\ report_data.cell_info = EmptyDict
        /\ report_data.wifi_info = EmptyDict
        /\ report_data.timestamp \in Clock

\* The parser has returned from the empty text.
C12_Witness ==
    /\ ParseReturned /\ content = <<>> /\ outcome = "ok"
    /\ DOMAIN report_data.wifi_info = {"networks"}
    /\ report_data.timestamp = MaxClock

\* The first index of ls whose line satisfies P, 0 when none does.
FirstIndex(ls, P(_, _)) ==
    IF \E i \in 1..Len(ls) : P(ls, i)
    THEN CHOOSE i \in 1..Len(ls) : P(ls, i) /\ \A j \in 1..(i - 1) : ~P(ls, j)
    ELSE 0

\* The Device pattern occurs at line i: the line is Device: <model> -
\* <hardware>, or it is Device: <model> and the next line begins with the
\* hyphen (the \s* before the hyphen runs over the line break).
DeviceOccursAt(ls, i) ==
    \/ ls[i] \in {"device_pixel", "device_nokia", "device_band"}
    \/ ls[i] = "device_nodash" /\ i < Len(ls) /\ ls[i + 1] = "cell_loc"

ModelAt(ls, i) ==
    CASE ls[i] \in {"device_pixel", "device_band"} -> <<"P", "i", "x", "e", "l", " ", "7">>
      [] ls[i] = "device_nokia" -> <<"N", "o", "k", "i", "a", " ", "3">>
      [] ls[i] = "device_nodash" -> <<"f", "o", "o">>

HardwareAt(ls, i) ==
    CASE ls[i] = "device_pixel" -> <<"p", "a", "n", "t", "h", "e", "r">>
      [] ls[i] = "device_nokia" -> <<"n", "e", "1">>
      [] ls[i] = "device_band" -> <<"b", "a", "n", "d", ":", " ", "3">>
      [] ls[i] = "device_nodash" -> Tail(LineText(ls[i + 1]))

AndroidOccursAt(ls, i) == ls[i] = "android_14"
SimOccursAt(ls, i) == ls[i] = "sim_ok"
CellOccursAt(ls, i) == ls[i] = "cell_loc"

\* The record's device_info, sim_info and cell_info.location, going by the
\* lines of the report: the captures of the first line that has the pattern.
ExpectedDeviceInfo(ls) ==
    LET i == FirstIndex(ls, DeviceOccursAt)
        j == FirstIndex(ls, AndroidOccursAt)
        d == IF i = 0 THEN EmptyDict
             ELSE Put(Put(EmptyDict, "model", StrV(ModelAt(ls, i))),
                      "hardware", StrV(HardwareAt(ls, i)))
    IN  IF j = 0 THEN d ELSE Put(d, "android_version", StrV(<<"1", "4">>))

ExpectedSimInfo(ls) ==
    IF FirstIndex(ls, SimOccursAt) = 0 THEN EmptyDict
    ELSE Put(Put(EmptyDict, "operator", StrV(<<"C", "a", "r", "r", "i", "e", "r">>)),
             "mccmnc", StrV(<<"3", "1", "0", "2", "6", "0">>))

ExpectedLocation(ls) ==
    IF FirstIndex(ls, CellOccursAt) = 0 THEN EmptyDict
    ELSE Put(EmptyDict, location_key, StrV(<<"c", "i", "d", ":", " ", "7">>))

\* The permission a line is about, and the token it gives.
PermKeyOf(kind) ==
    CASE kind \in {"perm_loc_true", "perm_loc_unknown"} -> "location_enabled"
      [] kind = "perm_course_True" -> "course_location"
      [] kind = "perm_fine_TRUE" -> "fine_location"
      [] kind = "perm_background_false" -> "background_location"
      [] kind = "perm_phone_true" -> "phone_state"
      [] kind = "perm_write_unknown" -> "write_access"
      [] kind = "perm_wifi_false" -> "wifi_state"
      [] OTHER -> "none"

PermTokenOf(kind) ==
    CASE kind \in {"perm_loc_true", "perm_phone_true"} -> "true"
      [] kind = "perm_course_True" -> "True"
      [] kind = "perm_fine_TRUE" -> "TRUE"
      [] kind \in {"perm_background_false", "perm_wifi_false"} -> "false"
      [] kind \in {"perm_loc_unknown", "perm_write_unknown"} -> "unknown"

\* The permissions of the record, going by the lines: each key a line is
\* about, with the flag TrueTokens gives the token of the first such line.
ExpectedPermissions(ls, TrueTokens) ==
    LET keys == {PermKeyOf(ls[i]) : i \in 1..Len(ls)} \ {"none"}
        First(key) == CHOOSE i \in 1..Len(ls) :
                          /\ PermKeyOf(ls[i]) = key
                          /\ \A j \in 1..(i - 1) : PermKeyOf(ls[j]) # key
    IN  [key \in keys |-> BoolV(PermTokenOf(ls[First(key)]) \in TrueTokens)]

\* The fields are there exactly when their pattern occurs, with the
\* captures of its first occurrence.
FieldsByPattern ==
    /\ DOMAIN report_data =
         {"device_info", "permissions", "sim_info", "wifi_info", "cell_info", "timestamp"}
    /\ report_data.device_info = ExpectedDeviceInfo(report_lines)
    /\ report_data.permissions = ExpectedPermissions(report_lines, {"true"})
    /\ report_data.sim_info = ExpectedSimInfo(report_lines)
    /\ \A key \in DOMAIN ExpectedLocation(report_lines) :
         /\ key \in DOMAIN report_data.cell_info
         /\ report_data.cell_info[key] = ExpectedLocation(report_lines)[key]
    /\ (ExpectedLocation(report_lines) = EmptyDict)
         => location_key \notin DOMAIN report_data.cell_info

\* C13: the parser has no error outcome: for every text it returns a record
\* with the six sections, in which model, hardware, android_version, the
\* permission flags, operator, mccmnc and cell_info.location are present
\* exactly when their pattern occurs in the text, with the capture of its
\* first occurrence, and are omitted otherwise.
C13_NoErrorFieldsByPattern ==
    ParseReturned => (outcome = "ok" /\ FieldsByPattern)

\* The same for the calls that returned a record.
FieldsByPatternWhenReturned ==
    (ParseReturned /\ outcome = "ok") => FieldsByPattern

\* C14 (as stated): a matched permission token gives true only when it is
\* exactly the lowercase word "true"; "True" and "TRUE" give false like
\* "false" and "unknown".
C14_OnlyExactLowercaseTrue ==
    (ParseReturned /\ outcome = "ok")
        => report_data.permissions = ExpectedPermissions(report_lines, {"true"})

\* C14 (amended): a matched permission token gives true exactly when its
\* lowercased form is "true": "true", "True" and "TRUE" give true, "false"
\* and "unknown" give false.
C14_LowercasedTokenIsTrue ==
    (ParseReturned /\ outcome = "ok")
        => report_data.permissions =
               ExpectedPermissions(report_lines, {"true", "True", "TRUE"})

\* A report with the tokens True and false was parsed: the first flag is
\* true, the second false.
C14_Witness ==
    /\ ParseReturned
    /\ report_lines = <<"perm_course_True", "perm_wifi_false">>
    /\ report_data.permissions.course_location = BoolV(TRUE)
    /\ report_data.permissions.wifi_state = BoolV(FALSE)

\* The <token>: <signed integer> items of a line, in the order of the text,
\* each as the lowercased token and the integer.
ItemsOf(kind) ==
    CASE kind = "lte_mcc_mnc" -> <<<<<<"m", "c", "c">>, 310>>, <<<<"m", "n", "c">>, 26>>>>
      [] kind = "lte_MCC" -> <<<<<<"m", "c", "c">>, 311>>>>
      [] kind = "lte_rsrp" -> <<<<<<"r", "s", "r", "p">>, 0 - 90>>, <<<<"j", "u", "n", "k">>, 5>>>>
      [] kind = "lte_tac_twice" -> <<<<<<"t", "a", "c">>, 5>>, <<<<"t", "a", "c">>, 6>>>>
      [] kind = "lte_xmcc" -> <<<<<<"x", "m", "c", "c">>, 5>>, <<<<"m", "c", "c", "2">>, 6>>>>
      [] kind = "sim_ok" -> <<<<<<"m", "c", "c">>, 204>>>>
      [] kind = "cell_loc" -> <<<<<<"c", "i", "d">>, 7>>>>
      [] kind = "device_band" -> <<<<<<"b", "a", "n", "d">>, 3>>>>
      [] OTHER -> <<>>

RECURSIVE AllItems(_)
AllItems(ls) == IF ls = <<>> THEN <<>> ELSE ItemsOf(Head(ls)) \o AllItems(Tail(ls))

\* The allow-listed names.
AllowList == {<<"m", "c", "c">>,
              <<"m", "n", "c">>,
              <<"t", "a", "c">>,
              <<"p", "c", "i">>,
              <<"r", "s", "r", "p">>,
              <<"r", "s", "r", "q">>,
              <<"r", "s", "s", "n", "r">>,
              <<"b", "a", "n", "d">>,
              <<"c", "i", "d">>,
              <<"n", "i", "d">>,
              <<"a", "s", "u">>,
              <<"p", "o", "w", "e", "r">>}

Occurrences(ls, k) == {i \in 1..Len(AllItems(ls)) : AllItems(ls)[i][1] = k}

LastOccurrence(ls, k) ==
    CHOOSE i \in Occurrences(ls, k) : \A j \in Occurrences(ls, k) : j <= i

\* C15: for every allow-listed name k, cell_info[k] is the integer of the
\* last <token>: <signed integer> occurrence in the whole document whose
\* lowercased token is k, occurrences inside the lines of the other rules
\* included; k is absent exactly when there is no such occurrence.
C15_LastOccurrenceWins ==
    (ParseReturned /\ outcome = "ok")
        => \A k \in AllowList :
             IF Occurrences(report_lines, k) = {}
             THEN k \notin DOMAIN report_data.cell_info
             ELSE /\ k \in DOMAIN report_data.cell_info
                  /\ report_data.cell_info[k] =
                       IntV(AllItems(report_lines)[LastOccurrence(report_lines, k)][2])

\* A report with mcc: 310 on a line of its own and mcc: 204 inside the later
\* SIM line was parsed: cell_info.mcc is 204.
C15_Witness ==
    /\ ParseReturned
    /\ report_lines = <<"lte_mcc_mnc", "sim_ok">>
    /\ report_data.cell_info[<<"m", "c", "c">>] = IntV(204)
    /\ report_data.cell_info[<<"m", "n", "c">>] = IntV(26)

\* C17 (as stated): the keys of cell_info all come from the allow-list and
\* its values are all integers.
C17_AllowListedIntegersOnly ==
    (ParseReturned /\ outcome = "ok")
        => \A k \in DOMAIN report_data.cell_info :
             k \in AllowList /\ report_data.cell_info[k].t = "int"

\* C17 (amended): the keys of cell_info are the allow-listed names, with
\* integer values, and the key location, whose value is the string captured
\* from the getCellLocation line.
C17_AllowListedOrLocation ==
    (ParseReturned /\ outcome = "ok")
        => \A k \in DOMAIN report_data.cell_info :
             \/ k \in AllowList /\ report_data.cell_info[k].t = "int"
             \/ k = <<"l", "o", "c", "a", "t", "i", "o", "n">> /\ report_data.cell_info[k].t = "str"

\* A report with a getCellLocation line and a line with junk: 5 was parsed:
\* cell_info holds location (a string), cid and rsrp, and not junk.
C17_Witness ==
    /\ ParseReturned
    /\ report_lines = <<"cell_loc", "lte_rsrp">>
    /\ DOMAIN report_data.cell_info = {<<"l", "o", "c", "a", "t", "i", "o", "n">>, <<"c", "i", "d">>, <<"r", "s", "r", "p">>}
    /\ report_data.cell_info[<<"l", "o", "c", "a", "t", "i", "o", "n">>] = StrV(<<"c", "i", "d", ":", " ", "7">>)
    /\ report_data.cell_info[<<"c", "i", "d">>] = IntV(7)

\* The entry of a WiFi block: its own ssid, rssi and channel.
Entry(ssid, rssi, channel) ==
    [ssid |-> StrV(ssid), rssi |-> IntV(rssi), channel |-> IntV(channel)]

EntryOf(kind) ==
    CASE kind = "wifi_home" -> Entry(<<"H", "o", "m", "e">>, 0 - 45, 6)
      [] kind = "wifi_cafe" -> Entry(<<"C", "a", "f", "e">>, 0 - 70, 11)
      [] kind = "wifi_lab" -> Entry(<<"L", "a", "b">>, 0 - 50, 1)
      [] kind = "wifi_net" -> Entry(<<"N", "e", "t", " ", "5">>, 0 - 60, 36)

OneEntryPerBlock ==
    report_data.wifi_info.networks =
        [i \in 1..Len(report_lines) |-> EntryOf(report_lines[i])]

\* C16: for a text made of WiFi blocks, each with an SSID line, then an RSSI
\* value, then a channel value, wifi_info.networks has exactly one entry per
\* block, in source order, each with the block's own ssid, rssi and channel
\* as integers; no entry mixes the fields of two blocks.
C16_OneEntryPerBlock ==
    (ParseReturned /\ outcome = "ok") => OneEntryPerBlock

\* The same for the blocks that have another line, or other text on the line,
\* between the SSID line and the RSSI value.
OneEntryPerSeparatedBlock ==
    (/\ ParseReturned
     /\ outcome = "ok"
     /\ \A i \in 1..Len(report_lines) : report_lines[i] # "wifi_lab")
        => OneEntryPerBlock

\* The strings of the pool of generated candidates, each once.
DedupPool == {possible_imsis[k] : k \in 1..Len(possible_imsis)}

NoTwoEqual(s) == \A i, j \in 1..Len(s) : s[i] = s[j] => i = j

\* C18 (as stated): the collection calculate_possible_imsis returns for the
\* count it is passed has no two equal strings, and its size is exactly
\* min(count, size of the pool after deduplication).
C18_SizeIsMinCountPool ==
    (ImsiReturned /\ outcome = "ok") =>
        /\ NoTwoEqual(result)
        /\ Len(result) = Min(PassedCount(via, count), Cardinality(DedupPool))

\* C18 (amended): the returned collection has no two equal strings, and its
\* size is exactly min(max(count, 0), size of the pool of
\* 3 x max(min(count, 100), 0) candidates after deduplication).
C18_SizeIsMinCountPoolFromZero ==
    (ImsiReturned /\ outcome = "ok") =>
        /\ NoTwoEqual(result)
        /\ Len(possible_imsis) =
             3 * Max(Min(PassedCount(via, count), MAX_CALCULATIONS), 0)
        /\ Len(result) = Min(Max(PassedCount(via, count), 0), Cardinality(DedupPool))

\* A call with count 2 whose pool of 6 candidates holds a string twice and
\* that returned 2 different strings.
C18_Witness ==
    /\ ImsiReturned /\ outcome = "ok"
    /\ count = 2
    /\ Len(possible_imsis) = 6
    /\ Cardinality(DedupPool) < 6
    /\ Len(result) = 2
    /\ result[1] # result[2]

\* The monitor_loop threads that are alive.
AliveThreads == {t \in Threads : thread_state[t] = "alive"}

\* The lines of start() after the test of the flag.
PastTheTest == {"start_484", "start_485", "start_486", "start_487"}

\* C19: at most one monitor_loop thread is alive in every state; a start()
\* that finds running true returns at once and leaves running, thread,
\* target_device and the threads as they are; and a start() that follows a
\* stop(), also a stop() whose join() a second CTRL+C interrupted, gets past
\* the test of the flag only when the loop of the previous start() has ended.
C19_AtMostOneMonitorLoop ==
    /\ [](Cardinality(AliveThreads) <= 1)
    /\ [](pc \in PastTheTest => AliveThreads = {})
    /\ [][(pc = "start_481" /\ running /\ pc' # pc)
            => /\ pc' \in {"idle", "except_576"}
               /\ UNCHANGED <<running, thread, target_device, thread_state>>]_vars

\* The second thread runs, after a stop() that waited for the first to end,
\* and another start() is at its test of the flag.
C19_Witness ==
    /\ pc = "start_481"
    /\ running
    /\ thread = 2
    /\ thread_state[1] = "finished"
    /\ thread_state[2] = "alive"

\* No add_device and no save_devices call is in progress.
NoCallInProgress ==
    \A c \in Callers : At(c) \notin {"add_430", "save_443", "save_444"}

\* C20: whenever no add_device or save_devices call is in progress, the list
\* in devices.json equals the registry: same ids, same order, same data.
C20_FileEqualsRegistry ==
    NoCallInProgress => db_file = Snapshot(devices)

\* stop() has been called: the handler found running true.
StopCalled == pc = "stop_492"

\* running, once false, stays false until line 484 of the next start().
StaysFalseUntilStart ==
    [][(~running /\ running') => pc = "start_484"]_vars

\* With running false no round of monitor_loop begins: no Device is made.
NoNewRound == [][~running => created' = created]_vars

\* The loop of a stopped monitor ends.
LoopEnds == StopCalled ~> (AliveThreads = {})

\* With running false and stop() not in progress no monitor thread is alive,
\* and the registry changes only while one is.
NoDeviceAfterStop ==
    /\ []((~running /\ pc # "stop_493") => AliveThreads = {})
    /\ [][devices' # devices => AliveThreads # {}]_vars

\* C21: after stop() is called on a running monitor, running stays false
\* until the next start(), the loop finishes at most its current round and
\* ends, stop() then returns to the console loop, and after that the monitor
\* adds no further device to the registry.
C21_StopEndsLoopAndReturns ==
    /\ StaysFalseUntilStart
    /\ NoNewRound
    /\ LoopEnds
    /\ StopCalled ~> (pc = "idle")
    /\ NoDeviceAfterStop

\* The same, with a stop() that returns or ends the process.
StopEndsLoopOrProcess ==
    /\ StaysFalseUntilStart
    /\ NoNewRound
    /\ LoopEnds
    /\ StopCalled ~> (pc \in {"idle", "exited"})
    /\ NoDeviceAfterStop

\* The ids the registry holds.
RegisteredIds(ds) == {ds[i].id : i \in 1..Len(ds)}

\* The registry new is the registry old after an upsert of device.
Upserted(old, new, device) ==
    IF device.id \in RegisteredIds(old)
    THEN /\ Len(new) = Len(old)
         /\ \A i \in 1..Len(old) :
              IF old[i].id # device.id THEN new[i] = old[i]
              ELSE /\ new[i].id = old[i].id
                   /\ DOMAIN new[i].data = DOMAIN old[i].data \cup DOMAIN device.data
                   /\ \A key \in DOMAIN device.data :
                        new[i].data[key] = device.data[key]
                   /\ \A key \in DOMAIN old[i].data \ DOMAIN device.data :
                        new[i].data[key] = old[i].data[key]
                   /\ new[i].times_seen = old[i].times_seen + 1
                   /\ new[i].first_seen = old[i].first_seen
                   /\ new[i].device_type = old[i].device_type
                   /\ new[i].location_history = old[i].location_history
    ELSE new = Append(old, device)

\* Caller c takes the step of add_device that changes the registry.
AddsDevice(c) ==
    /\ At(c) = "add_430"
    /\ (IF c = Main THEN pc' ELSE mpc'[c]) = "save_443"

\* C22: add_device is an upsert keyed by device id: for an id the registry
\* holds, size and order stay, the entry's data is overwritten key by key
\* (keys the new data lacks are kept), times_seen grows by 1, and first_seen,
\* device_type and location_history stay; a new id is appended as the last
\* entry and the others stay. Over every step the set of registered ids only
\* grows.
C22_AddDeviceIsUpsert ==
    /\ [][\A c \in Callers :
            AddsDevice(c) => Upserted(devices, devices', Head(adding[c]))]_vars
    /\ [][RegisteredIds(devices) \subseteq RegisteredIds(devices')]_vars

\* The first device, a cell tower, was updated from a file after a second
\* device was added: it is still first, was seen twice, has the new mcc and
\* tac, kept its pci, and was first seen when it was made.
C22_Witness ==
    /\ Len(devices) = 2
    /\ devices[1].id = 1
    /\ devices[1].device_type = "cell_tower"
    /\ devices[1].times_seen = 2
    /\ devices[1].data = ("mcc" :> "311" @@ "pci" :> "7" @@ "tac" :> "5")
    /\ devices[1].first_seen = 1
    /\ devices[1].last_seen = 2
    /\ devices[2].id = 2

============================================================================
